---- MODULE Spec2Model ----
(***************************************************************************)
(* Model of src/fileSystem.py: the FileSystem volume (metadata, best-fit   *)
(* allocator, directory namespace) and the FileObject handle operations.   *)
(*                                                                         *)
(* Strings are sequences of one-character strings, so that split, rstrip   *)
(* and the path concatenations of the source are computed, not assumed.    *)
(* Bytes are naturals.  Timestamps (time.time()) are not modelled.         *)
(***************************************************************************)
EXTENDS Integers, Sequences, FiniteSets, TLC

(***************************************************************************)
(* Bounds of the model.                                                    *)
(***************************************************************************)
\* max_size handed to FileSystem(data_file, max_size): the arena's capacity
MaxSize == 2
\* cap on the length (in characters) of a handle's content buffer
MaxLen == 2
\* cap on the number of blocks of the free list
MaxBlocks == 3
\* cap on the number of segments of a directory path
MaxDepth == 2

\* file names the callers use
Names == {"a", "b"}

(***************************************************************************)
(* Python str / bytes helpers.                                             *)
(***************************************************************************)
SLASH == "/"

\* the characters of the texts that are written: "x" is ASCII, "E" stands
\* for U+00E9 (two bytes in UTF-8), "NUL" for U+0000 (what decode gives for
\* the zero bytes the arena is initialised with)
Encode1(c) ==
    CASE c = "x" -> <<120>>
      [] c = "E" -> <<195, 169>>
      [] c = "NUL" -> <<0>>

\* str.encode('utf-8')
RECURSIVE Encode(_)
Encode(s) == IF s = <<>> THEN <<>> ELSE Encode1(Head(s)) \o Encode(Tail(s))

\* whether bytes.decode('utf-8') succeeds (else UnicodeDecodeError)
RECURSIVE Decodable(_)
Decodable(b) ==
    IF b = <<>> THEN TRUE
    ELSE IF b[1] \in {0, 120} THEN Decodable(Tail(b))
    ELSE IF b[1] = 195 /\ Len(b) >= 2 /\ b[2] = 169
         THEN Decodable(SubSeq(b, 3, Len(b)))
    ELSE FALSE

\* bytes.decode('utf-8') of decodable bytes
RECURSIVE Decode(_)
Decode(b) ==
    IF b = <<>> THEN <<>>
    ELSE IF b[1] = 0 THEN <<"NUL">> \o Decode(Tail(b))
    ELSE IF b[1] = 120 THEN <<"x">> \o Decode(Tail(b))
    ELSE <<"E">> \o Decode(SubSeq(b, 3, Len(b)))

\* str.rstrip(c)
RECURSIVE RStrip(_, _)
RStrip(s, c) ==
    IF s # <<>> /\ s[Len(s)] = c THEN RStrip(SubSeq(s, 1, Len(s) - 1), c) ELSE s

\* str.split('/'): the list of the (possibly empty) pieces between slashes
RECURSIVE SplitFrom(_, _)
SplitFrom(s, cur) ==
    IF s = <<>> THEN <<cur>>
    ELSE IF Head(s) = SLASH THEN <<cur>> \o SplitFrom(Tail(s), <<>>)
    ELSE SplitFrom(Tail(s), Append(cur, Head(s)))

Split(s) == SplitFrom(s, <<>>)

\* [p for p in parts if p]
RECURSIVE NonEmpty(_)
NonEmpty(parts) ==
    IF parts = <<>> THEN <<>>
    ELSE IF Head(parts) = <<>> THEN NonEmpty(Tail(parts))
    ELSE <<Head(parts)>> \o NonEmpty(Tail(parts))

\* '/'.join(parts)
RECURSIVE Join(_)
Join(parts) ==
    IF parts = <<>> THEN <<>>
    ELSE IF Len(parts) = 1 THEN parts[1]
    ELSE parts[1] \o <<SLASH>> \o Join(Tail(parts))

\* s.rsplit('/', 1)[0]: what precedes the last slash (s itself without one)
RECURSIVE RSplitHead(_)
RSplitHead(s) ==
    IF \A i \in 1..Len(s) : s[i] # SLASH THEN s
    ELSE IF s[Len(s)] = SLASH THEN SubSeq(s, 1, Len(s) - 1)
    ELSE RSplitHead(SubSeq(s, 1, Len(s) - 1))

\* x in list
InList(x, l) == \E i \in 1..Len(l) : l[i] = x

\* list.remove(x): drops the first occurrence only
RECURSIVE ListRemove(_, _)
ListRemove(l, x) ==
    IF l = <<>> THEN <<>>
    ELSE IF Head(l) = x THEN Tail(l)
    ELSE <<Head(l)>> \o ListRemove(Tail(l), x)

\* list.pop(i), with the model's 1-based index
ListPop(l, i) == SubSeq(l, 1, i - 1) \o SubSeq(l, i + 1, Len(l))

\* number of path segments, used to bound the directory tree
Depth(path) == Len(NonEmpty(Split(path)))

(***************************************************************************)
(* The data file: a byte sequence, read and written at a position.         *)
(***************************************************************************)
\* df.seek(pos); df.read(n): short at the end of the file
FileRead(bytes, pos, n) ==
    IF pos >= Len(bytes) THEN <<>>
    ELSE SubSeq(bytes, pos + 1, IF pos + n > Len(bytes) THEN Len(bytes) ELSE pos + n)

\* df.seek(pos); df.write(b) on a file opened 'r+b': overwrites in place,
\* and past the end the file grows, the gap reading as zero bytes
FileWrite(bytes, pos, b) ==
    IF b = <<>> THEN bytes
    ELSE LET n == IF pos + Len(b) > Len(bytes) THEN pos + Len(b) ELSE Len(bytes)
         IN  [i \in 1..n |->
                IF i > pos /\ i <= pos + Len(b) THEN b[i - pos]
                ELSE IF i <= Len(bytes) THEN bytes[i]
                ELSE 0]

(***************************************************************************)
(* State.                                                                  *)
(***************************************************************************)
VARIABLES
    fs_metadata,    \* FileSystem.fs_metadata: max_size, used_size, files,
                    \* directories, free_space
    open_files,     \* FileSystem.open_files: file name -> FileObject
    current_path,   \* FileSystem.current_path
    data_file,      \* the bytes of the data file (sample.dat)
    metadata_file,  \* the metadata last written by _save_metadata
    last,           \* the last call: operation, arguments, outcome, value
    pc,             \* per thread: the statement it is about to execute
    local,          \* per thread: the local variables of its call
    lock            \* the thread that holds FileSystem.lock, and for every
                    \* name the thread that holds the lock of its FileObject
                    \* in open_files (0: the lock is not held)

vars == <<fs_metadata, open_files, current_path, data_file, metadata_file, last,
          pc, local, lock>>

\* the threads that call into one shared FileSystem
Threads == {1, 2}

\* the locals of a thread that is in no call
NoLocals == <<>>

\* threading.Lock() of FileSystem.__init__ and of FileObject.__init__: no
\* lock is held
Unlocked == [file_system |-> 0, file_object |-> [n \in {"a", "b"} |-> 0]]

ROOT == <<SLASH>>

\* a DirectoryRecord as mkdir, move and get_current_directory_meta build it
NewDir(name) == [name |-> name, files |-> <<>>, subdirectories |-> <<>>]

\* _initialize, no metadata file present
InitMetadata ==
    [max_size |-> MaxSize,
     used_size |-> 0,
     files |-> <<>>,
     directories |-> (ROOT :> NewDir(ROOT)),
     free_space |-> <<<<0, MaxSize>>>>]

\* the outcome of a call
Result(op, args, res, out) == [op |-> op, args |-> args, res |-> res, out |-> out]

(***************************************************************************)
(* The metadata file.  json.dump writes a JSON document: numbers, strings, *)
(* true/false, arrays and objects; json.load reads one back, an array as a *)
(* Python list and an object as a dict.  A Python list of two integers is  *)
(* the record [list |-> <<start, size>>], a tuple is <<start, size>>.      *)
(***************************************************************************)
JNumber(n) == [number |-> n]
JString(s) == [string |-> s]
JBool(b) == [bool |-> b]
JArray(items) == [array |-> items]
JObject(members) == [object |-> members]

\* list(block) of _save_metadata
list(block) == [list |-> block]

\* a conversion that loses the length of the block: the start stands in
\* both places
tuple_skipped(block) == <<block.list[1], block.list[1]>>

\* tuple(block) of _initialize
tuple(block) == block.list

\* json.dump of a FileRecord
dump_file(f) ==
    JObject([name |-> JString(f.name),
             size |-> JNumber(f.size),
             start_pos |-> JNumber(f.start_pos),
             is_directory |-> JBool(f.is_directory)])

\* json.dump of a DirectoryRecord
dump_directory(d) ==
    JObject([name |-> JString(d.name),
             files |-> JArray([i \in DOMAIN d.files |-> JString(d.files[i])]),
             subdirectories |->
                 JArray([i \in DOMAIN d.subdirectories |-> JString(d.subdirectories[i])])])

\* json.dump(metadata_copy, f, indent=2): the document written for the
\* metadata, whose free_space blocks are lists
json_dump(obj) ==
    JObject([max_size |-> JNumber(obj.max_size),
             used_size |-> JNumber(obj.used_size),
             files |-> JObject([n \in DOMAIN obj.files |-> dump_file(obj.files[n])]),
             directories |->
                 JObject([p \in DOMAIN obj.directories |-> dump_directory(obj.directories[p])]),
             free_space |->
                 JArray([i \in DOMAIN obj.free_space |->
                           JArray([j \in DOMAIN obj.free_space[i].list |->
                                     JNumber(obj.free_space[i].list[j])])])])

\* json.load of a FileRecord
load_file(o) ==
    [name |-> o.object.name.string,
     size |-> o.object.size.number,
     start_pos |-> o.object.start_pos.number,
     is_directory |-> o.object.is_directory.bool]

\* json.load of a DirectoryRecord
load_directory(o) ==
    [name |-> o.object.name.string,
     files |-> [i \in DOMAIN o.object.files.array |-> o.object.files.array[i].string],
     subdirectories |->
         [i \in DOMAIN o.object.subdirectories.array |->
            o.object.subdirectories.array[i].string]]

\* json.load(f): the metadata read from the document, free_space blocks as
\* lists
json_load(doc) ==
    [max_size |-> doc.object.max_size.number,
     used_size |-> doc.object.used_size.number,
     files |-> [n \in DOMAIN doc.object.files.object |->
                  load_file(doc.object.files.object[n])],
     directories |-> [p \in DOMAIN doc.object.directories.object |->
                        load_directory(doc.object.directories.object[p])],
     free_space |-> [i \in DOMAIN doc.object.free_space.array |->
                       list([j \in DOMAIN doc.object.free_space.array[i].array |->
                               doc.object.free_space.array[i].array[j].number])]]

\* metadata_copy of _save_metadata: the metadata with every free_space
\* block as a list
metadata_copy(md) ==
    [md EXCEPT !.free_space = [i \in DOMAIN md.free_space |-> list(md.free_space[i])]]

\* _initialize, metadata file present: the metadata loaded, every
\* free_space block made a tuple again
LoadMetadata(doc) ==
    LET md == json_load(doc)
    IN  [md EXCEPT !.free_space = [i \in DOMAIN md.free_space |-> tuple(md.free_space[i])]]

Init ==
    /\ fs_metadata = InitMetadata
    /\ open_files = <<>>
    /\ current_path = ROOT
    /\ data_file = [i \in 1..MaxSize |-> 0]
    /\ metadata_file = json_dump(metadata_copy(InitMetadata))
    /\ last = Result("init", <<>>, "ok", <<>>)
    /\ pc = [t \in Threads |-> "idle"]
    /\ local = [t \in Threads |-> NoLocals]
    /\ lock = Unlocked

(***************************************************************************)
(* dict helpers.                                                           *)
(***************************************************************************)
\* d[k] = v
Put(d, k, v) == [x \in (DOMAIN d) \cup {k} |-> IF x = k THEN v ELSE d[x]]

\* the key is left in the dict
DelNothing(d, k) == d

\* del d[k]
Del(d, k) == [x \in (DOMAIN d) \ {k} |-> d[x]]

(***************************************************************************)
(* The free-space allocator.                                               *)
(***************************************************************************)
\* first fit: the index of the first block that holds size bytes
FirstFitFrom(fl, size, i, best) ==
    IF \E k \in DOMAIN fl : fl[k][2] >= size
    THEN CHOOSE k \in DOMAIN fl :
            fl[k][2] >= size /\ \A j \in DOMAIN fl : fl[j][2] >= size => k <= j
    ELSE 0

\* the loop of _allocate_space: the index of the block chosen among
\* fl[i..], given the best index so far (0 stands for -1, no block yet)
RECURSIVE BestFitFrom(_, _, _, _)
BestFitFrom(fl, size, i, best) ==
    IF i > Len(fl) THEN best
    ELSE IF fl[i][2] >= size /\ (best = 0 \/ fl[i][2] < fl[best][2])
         THEN BestFitFrom(fl, size, i + 1, i)
    ELSE BestFitFrom(fl, size, i + 1, best)

\* _allocate_space(size) on metadata md: [ok, md, start]
_allocate_space(md, size) ==
    IF md.free_space = <<>> THEN [ok |-> FALSE, md |-> md, start |-> 0]
    ELSE LET best_fit_index == BestFitFrom(md.free_space, size, 1, 0) IN
         IF best_fit_index = 0 THEN [ok |-> FALSE, md |-> md, start |-> 0]
         ELSE LET start == md.free_space[best_fit_index][1]
                  free_size == md.free_space[best_fit_index][2]
                  fl == IF free_size = size
                        THEN ListPop(md.free_space, best_fit_index)
                        ELSE [md.free_space EXCEPT
                                ![best_fit_index] = <<start + size, free_size - size>>]
              IN  [ok |-> TRUE,
                   md |-> [md EXCEPT !.free_space = fl, !.used_size = @ + size],
                   start |-> start]

\* tuple comparison of two (start, size) blocks, as list.sort() orders them
BlockLess(a, b) == a[1] < b[1] \/ (a[1] = b[1] /\ a[2] < b[2])

\* insertion of block b into the sorted list l, after the blocks equal to it
RECURSIVE SortedInsert(_, _)
SortedInsert(l, b) ==
    IF l = <<>> THEN <<b>>
    ELSE IF BlockLess(b, Head(l)) THEN <<b>> \o l
    ELSE <<Head(l)>> \o SortedInsert(Tail(l), b)

\* list.sort()
RECURSIVE Sort(_)
Sort(l) == IF l = <<>> THEN <<>> ELSE SortedInsert(Sort(SubSeq(l, 1, Len(l) - 1)), l[Len(l)])

\* a release that leaves the sorted list as it is, nothing merged
MergeNever(fl, i) == fl

\* the merge loop of _release_space, from (1-based) index i
RECURSIVE MergeFrom(_, _)
MergeFrom(fl, i) ==
    IF i >= Len(fl) THEN fl
    ELSE IF fl[i][1] + fl[i][2] = fl[i + 1][1]
         THEN MergeFrom(ListPop([fl EXCEPT ![i] = <<fl[i][1], fl[i][2] + fl[i + 1][2]>>],
                                i + 1), i)
    ELSE MergeFrom(fl, i + 1)

\* _release_space(start, size) on metadata md
_release_space(md, start, size) ==
    IF size <= 0 THEN md
    ELSE [md EXCEPT
            !.free_space = MergeFrom(Sort(Append(@, <<start, size>>)), 1),
            !.used_size = @ - size]

(***************************************************************************)
(* Metadata access.  A "world" w is the pair of the in-memory metadata and *)
(* the metadata file, threaded through the calls of a handler.             *)
(***************************************************************************)
World(md, disk) == [md |-> md, disk |-> disk]

\* _save_metadata: json.dump of the metadata, free_space as lists
_save_metadata(w) == World(w.md, json_dump(metadata_copy(w.md)))

\* the name get_current_directory_meta gives a directory it creates
LastSegment(path) == LET parts == Split(path) IN parts[Len(parts)]

\* get_current_directory_meta: creates (and saves) a missing current directory
get_current_directory_meta(w, path) ==
    IF path \in DOMAIN w.md.directories THEN w
    ELSE _save_metadata(
           World([w.md EXCEPT !.directories =
                    Put(@, path, NewDir(IF path # ROOT THEN LastSegment(path) ELSE ROOT))],
                 w.disk))

\* get_file_metadata
HasFile(md, file_name) == file_name \in DOMAIN md.files

\* the name linked into the root directory, whatever the directory asked for
AddFileInRoot(dirs, path, file_name) ==
    IF InList(file_name, dirs[ROOT].files) THEN dirs
    ELSE [dirs EXCEPT ![ROOT].files = Append(@, file_name)]

\* dir_meta['files'].append(file_name) when the name is not listed
AddFileOnce(dirs, path, file_name) ==
    IF InList(file_name, dirs[path].files) THEN dirs
    ELSE [dirs EXCEPT ![path].files = Append(@, file_name)]

\* the loops of delete and move: list.remove(file_name) in every directory
RemoveFromAll(dirs, file_name) ==
    [p \in DOMAIN dirs |-> [dirs[p] EXCEPT !.files = ListRemove(@, file_name)]]

\* the size create and FileObject.__init__ ask _allocate_space for
InitialAllocation == 0

\* a FileRecord as create and FileObject.__init__ build it
NewFile(file_name, start) ==
    [name |-> file_name, size |-> 0, start_pos |-> start, is_directory |-> FALSE]

\* a handler that swallows its exception and returns
RaiseNothing(op, args, res, w) ==
    /\ fs_metadata' = w.md
    /\ metadata_file' = w.disk
    /\ last' = Result(op, args, "ok", <<>>)

\* a handler raised: only what it changed before raising is kept
Raise(op, args, res, w) ==
    /\ fs_metadata' = w.md
    /\ metadata_file' = w.disk
    /\ last' = Result(op, args, res, <<>>)

\* a handler returned
Return(op, args, out, w) ==
    /\ fs_metadata' = w.md
    /\ metadata_file' = w.disk
    /\ last' = Result(op, args, "ok", out)

Here == World(fs_metadata, metadata_file)

(***************************************************************************)
(* FileSystem operations.                                                  *)
(***************************************************************************)
\* no handle is ever found in the open-handle table
NeverOpen(file_name) == FALSE

\* file_name in self.open_files
IsOpen(file_name) == file_name \in DOMAIN open_files

\* create, once the name is found to be new
create_new(file_name) ==
    LET w1 == get_current_directory_meta(Here, current_path)
        al == _allocate_space(w1.md, InitialAllocation)
    IN  IF ~al.ok
        THEN Raise("create", <<file_name>>, "IOError: no free space", w1)
        ELSE LET md2 == [al.md EXCEPT
                           !.directories = AddFileOnce(@, current_path, file_name),
                           !.files = Put(@, file_name, NewFile(file_name, al.start))]
             IN  Return("create", <<file_name>>, <<>>,
                        _save_metadata(World(md2, w1.disk)))

\* create with the name looked up in the current directory only
create_per_directory(file_name) ==
    /\ UNCHANGED <<open_files, current_path, data_file>>
    /\ IF /\ current_path \in DOMAIN fs_metadata.directories
          /\ InList(file_name, fs_metadata.directories[current_path].files)
       THEN Raise("create", <<file_name>>, "ValueError: already exists", Here)
       ELSE create_new(file_name)

create(file_name) ==
    /\ UNCHANGED <<open_files, current_path, data_file>>
    /\ IF HasFile(fs_metadata, file_name)
       THEN Raise("create", <<file_name>>, "ValueError: already exists", Here)
       ELSE create_new(file_name)

delete(file_name) ==
    /\ UNCHANGED <<open_files, current_path, data_file>>
    /\ IF ~HasFile(fs_metadata, file_name)
       THEN Raise("delete", <<file_name>>, "ValueError: does not exist", Here)
       ELSE IF IsOpen(file_name)
       THEN Raise("delete", <<file_name>>, "ValueError: open file", Here)
       ELSE LET file_meta == fs_metadata.files[file_name]
                md1 == _release_space(fs_metadata, file_meta.start_pos, file_meta.size)
                md2 == [md1 EXCEPT
                          !.directories = RemoveFromAll(@, file_name),
                          !.files = Del(@, file_name)]
            IN  /\ Len(md2.free_space) <= MaxBlocks
                /\ Return("delete", <<file_name>>, <<>>,
                          _save_metadata(World(md2, metadata_file)))

\* the name taken from the root, whatever the current path
UnderRoot(path, name) == <<SLASH>> \o name

\* the path mkdir, chdir and move form from the current path and a name
Under(path, name) ==
    IF path = ROOT THEN <<SLASH>> \o name ELSE path \o <<SLASH>> \o name

mkdir(dir_name) ==
    /\ UNCHANGED <<open_files, current_path, data_file>>
    /\ LET new_dir_path == Under(current_path, dir_name) IN
       /\ Depth(new_dir_path) <= MaxDepth
       /\ IF new_dir_path \in DOMAIN fs_metadata.directories
          THEN Raise("mkdir", <<dir_name>>, "ValueError: already exists", Here)
          ELSE LET md1 == [fs_metadata EXCEPT
                             !.directories = Put(@, new_dir_path, NewDir(dir_name))]
                   w2 == get_current_directory_meta(World(md1, metadata_file), current_path)
                   md3 == [w2.md EXCEPT !.directories[current_path].subdirectories =
                             IF InList(dir_name, @) THEN @ ELSE Append(@, dir_name)]
               IN  Return("mkdir", <<dir_name>>, <<>>, _save_metadata(World(md3, w2.disk)))

chdir(dir_name) ==
    /\ UNCHANGED <<open_files, data_file>>
    /\ IF dir_name = <<".">>
       THEN /\ current_path' = current_path
            /\ Return("chdir", <<dir_name>>, <<>>, Here)
       ELSE IF dir_name = <<".", ".">>
       THEN /\ current_path' =
                 IF current_path = ROOT THEN ROOT
                 ELSE LET path_parts == NonEmpty(Split(current_path))
                          popped == IF path_parts # <<>>
                                    THEN SubSeq(path_parts, 1, Len(path_parts) - 1)
                                    ELSE path_parts
                          joined == <<SLASH>> \o Join(popped)
                      IN  IF joined = <<>> THEN ROOT ELSE joined
            /\ Return("chdir", <<dir_name>>, <<>>, Here)
       ELSE IF dir_name = <<SLASH>>
       THEN /\ current_path' = ROOT
            /\ Return("chdir", <<dir_name>>, <<>>, Here)
       ELSE LET target_path == Under(current_path, dir_name) IN
            IF target_path \notin DOMAIN fs_metadata.directories
            THEN /\ current_path' = current_path
                 /\ Raise("chdir", <<dir_name>>, "ValueError: does not exist", Here)
            ELSE /\ current_path' = target_path
                 /\ Return("chdir", <<dir_name>>, <<>>, Here)

\* the loop of move that creates the directories of the target path:
\* parts[i..] are still to visit, curr is the path built so far
RECURSIVE MakeDirs(_, _, _, _)
MakeDirs(dirs, parts, i, curr) ==
    IF i > Len(parts) THEN dirs
    ELSE LET part == parts[i]
             next == IF curr # <<>> THEN curr \o <<SLASH>> \o part ELSE <<SLASH>> \o part
             parent == IF next = <<SLASH>> \o part THEN ROOT ELSE RSplitHead(next)
             d1 == IF next \in DOMAIN dirs THEN dirs
                   ELSE LET d0 == Put(dirs, next, NewDir(part)) IN
                        IF parent \in DOMAIN d0 /\ ~InList(part, d0[parent].subdirectories)
                        THEN [d0 EXCEPT ![parent].subdirectories = Append(@, part)]
                        ELSE d0
         IN  MakeDirs(d1, parts, i + 1, next)

move(source_fname, target_dir) ==
    /\ UNCHANGED <<open_files, current_path, data_file>>
    /\ IF ~HasFile(fs_metadata, source_fname)
       THEN Raise("move", <<source_fname, target_dir>>, "ValueError: does not exist", Here)
       ELSE IF IsOpen(source_fname)
       THEN Raise("move", <<source_fname, target_dir>>, "ValueError: open file", Here)
       ELSE LET target_dir_path ==
                    RStrip(IF target_dir = <<>> \/ Head(target_dir) # SLASH
                           THEN Under(current_path, target_dir)
                           ELSE target_dir, SLASH)
                d1 == IF target_dir_path \in DOMAIN fs_metadata.directories
                      THEN fs_metadata.directories
                      ELSE MakeDirs(fs_metadata.directories,
                                    NonEmpty(Split(target_dir_path)), 1, <<>>)
                d2 == RemoveFromAll(d1, source_fname)
            IN  /\ Depth(target_dir_path) <= MaxDepth
                /\ IF target_dir_path \notin DOMAIN d2
                   THEN Raise("move", <<source_fname, target_dir>>, "KeyError",
                              World([fs_metadata EXCEPT !.directories = d2], metadata_file))
                   ELSE Return("move", <<source_fname, target_dir>>, <<>>,
                               _save_metadata(World(
                                 [fs_metadata EXCEPT !.directories =
                                    AddFileOnce(d2, target_dir_path, source_fname)],
                                 metadata_file)))

(***************************************************************************)
(* FileObject.  A handle is [mode, content, file_meta]; file_meta is the   *)
(* FileRecord the handle reads its size and start_pos from.  In the source *)
(* it is the very dict stored in fs_metadata['files'], and every handler   *)
(* writes a new size to both.                                              *)
(***************************************************************************)
\* FileObject.__init__: [res, w, obj]
FileObject(w, file_name, mode) ==
    IF ~HasFile(w.md, file_name) /\ mode # "w"
    THEN [res |-> "FileNotFoundError", w |-> w]
    ELSE IF ~HasFile(w.md, file_name)
    THEN LET al == _allocate_space(w.md, InitialAllocation) IN
         IF ~al.ok THEN [res |-> "IOError: no free space", w |-> w]
         ELSE LET file_meta == NewFile(file_name, al.start)
                  w1 == get_current_directory_meta(World(al.md, w.disk), current_path)
                  d1 == AddFileOnce(w1.md.directories, current_path, file_name)
                  path_parts == NonEmpty(Split(current_path))
                  dir_path == IF path_parts # <<>> THEN <<SLASH>> \o Join(path_parts)
                              ELSE <<>>
              IN  IF dir_path \notin DOMAIN d1
                  THEN [res |-> "KeyError",
                        w |-> World([w1.md EXCEPT !.directories = d1], w1.disk)]
                  ELSE [res |-> "ok",
                        w |-> _save_metadata(World(
                                [w1.md EXCEPT
                                   !.directories =
                                       [d1 EXCEPT ![dir_path].files = Append(@, file_name)],
                                   !.files = Put(@, file_name, file_meta)],
                                w1.disk)),
                        obj |-> [mode |-> mode, content |-> <<>>, file_meta |-> file_meta]]
    ELSE LET file_meta == w.md.files[file_name]
             bytes == FileRead(data_file, file_meta.start_pos, file_meta.size)
         IN  IF ~Decodable(bytes) THEN [res |-> "UnicodeDecodeError", w |-> w]
             ELSE [res |-> "ok", w |-> w,
                   obj |-> [mode |-> mode,
                            content |-> RStrip(Decode(bytes), "NUL"),
                            file_meta |-> file_meta]]

open(file_name, mode) ==
    /\ UNCHANGED <<current_path, data_file>>
    /\ IF mode \notin {"r", "w"}
       THEN /\ open_files' = open_files
            /\ Raise("open", <<file_name, mode>>, "ValueError: mode", Here)
       ELSE LET fo == FileObject(Here, file_name, mode) IN
            IF fo.res # "ok"
            THEN /\ open_files' = open_files
                 /\ Raise("open", <<file_name, mode>>, fo.res, fo.w)
            ELSE /\ open_files' = Put(open_files, file_name, fo.obj)
                 /\ Return("open", <<file_name, mode>>, <<>>, fo.w)

close(file_name) ==
    /\ UNCHANGED <<current_path, data_file>>
    /\ IF file_name \notin DOMAIN open_files
       THEN /\ open_files' = open_files
            /\ Raise("close", <<file_name>>, "ValueError: not open", Here)
       ELSE /\ open_files' = Del(open_files, file_name)
            /\ Return("close", <<file_name>>, <<>>, _save_metadata(Here))

\* the size is set and the bytes from the new size on are listed as free
SetSizeAndRelease(md, file_name, size) ==
    [md EXCEPT !.files[file_name].size = size,
               !.free_space = Append(@, <<md.files[file_name].start_pos + size, 1>>)]

\* the size recorded in the metadata is left as it was
SetSizeNever(md, file_name, size) == md

\* fs_metadata['files'][file_name]['size'] = size
SetSize(md, file_name, size) == [md EXCEPT !.files[file_name].size = size]

\* the handle of file_name keeps the size it had
KeepSize(file_name, size) == open_files

\* the handle of file_name with its file_meta['size'] set
WithSize(file_name, size) ==
    [open_files EXCEPT ![file_name].file_meta.size = size]

write_to_file(file_name, text) ==
    LET self == open_files[file_name]
        args == <<file_name, text>>
    IN
    /\ UNCHANGED current_path
    /\ IF self.mode # "w"
       THEN /\ UNCHANGED <<open_files, data_file>>
            /\ Raise("write_to_file", args, "IOError: not write mode", Here)
       ELSE LET content == self.content \o text
                size == Len(Encode(content))
            IN  /\ Len(content) <= MaxLen
                /\ open_files' = [WithSize(file_name, size) EXCEPT
                                    ![file_name].content = content]
                /\ data_file' = FileWrite(data_file, self.file_meta.start_pos,
                                          Encode(content))
                /\ IF ~HasFile(fs_metadata, file_name)
                   THEN Raise("write_to_file", args, "KeyError", Here)
                   ELSE Return("write_to_file", args, <<>>,
                          _save_metadata(World(SetSize(fs_metadata, file_name, size),
                                               metadata_file)))

write_to_file_at(file_name, write_at, text) ==
    LET self == open_files[file_name]
        args == <<file_name, write_at, text>>
    IN
    /\ UNCHANGED current_path
    /\ IF self.mode # "w"
       THEN /\ UNCHANGED <<open_files, data_file>>
            /\ Raise("write_to_file_at", args, "IOError: not write mode", Here)
       ELSE IF write_at < 0
       THEN /\ UNCHANGED <<open_files, data_file>>
            /\ Raise("write_to_file_at", args, "ValueError: negative", Here)
       ELSE LET text_bytes == Encode(text)
                end_pos == write_at + Len(text_bytes)
                grows == end_pos > self.file_meta.size
            IN  IF grows /\ ~HasFile(fs_metadata, file_name)
                THEN /\ open_files' = WithSize(file_name, end_pos)
                     /\ UNCHANGED data_file
                     /\ Raise("write_to_file_at", args, "KeyError", Here)
                ELSE /\ open_files' = IF grows THEN WithSize(file_name, end_pos)
                                      ELSE open_files
                     /\ data_file' = FileWrite(data_file,
                                               self.file_meta.start_pos + write_at,
                                               text_bytes)
                     /\ IF ~HasFile(fs_metadata, file_name)
                        THEN Raise("write_to_file_at", args, "KeyError", Here)
                        ELSE Return("write_to_file_at", args, <<>>,
                               _save_metadata(World(
                                 IF grows THEN SetSize(fs_metadata, file_name, end_pos)
                                 ELSE fs_metadata, metadata_file)))

read_from_file(file_name) ==
    /\ UNCHANGED <<open_files, current_path, data_file>>
    /\ Return("read_from_file", <<file_name>>, open_files[file_name].content, Here)

read_from_file_at(file_name, start, size) ==
    LET self == open_files[file_name]
        args == <<file_name, start, size>>
    IN
    /\ UNCHANGED <<open_files, current_path, data_file>>
    /\ IF start < 0 \/ size < 0
       THEN Raise("read_from_file_at", args, "ValueError: negative", Here)
       ELSE IF start >= self.file_meta.size
       THEN Return("read_from_file_at", args, <<>>, Here)
       ELSE LET n == IF start + size > self.file_meta.size
                     THEN self.file_meta.size - start ELSE size
                content == FileRead(data_file, self.file_meta.start_pos + start, n)
            IN  IF ~Decodable(content)
                THEN Raise("read_from_file_at", args, "UnicodeDecodeError", Here)
                ELSE Return("read_from_file_at", args, Decode(content), Here)

move_within_file(file_name, start, size, target) ==
    LET self == open_files[file_name]
        args == <<file_name, start, size, target>>
    IN
    /\ UNCHANGED current_path
    /\ IF self.mode # "w"
       THEN /\ UNCHANGED <<open_files, data_file>>
            /\ Raise("move_within_file", args, "IOError: not write mode", Here)
       ELSE IF start < 0 \/ size < 0 \/ target < 0
       THEN /\ UNCHANGED <<open_files, data_file>>
            /\ Raise("move_within_file", args, "ValueError: negative", Here)
       ELSE IF start >= self.file_meta.size
       THEN /\ UNCHANGED <<open_files, data_file>>
            /\ Return("move_within_file", args, <<>>, Here)
       ELSE LET n == IF start + size > self.file_meta.size
                     THEN self.file_meta.size - start ELSE size
                content == FileRead(data_file, self.file_meta.start_pos + start, n)
                new_size == IF target + n > self.file_meta.size
                            THEN target + n ELSE self.file_meta.size
                grows == new_size > self.file_meta.size
            IN  IF ~HasFile(fs_metadata, file_name)
                THEN /\ open_files' = IF grows THEN WithSize(file_name, new_size)
                                      ELSE open_files
                     /\ data_file' = IF grows THEN data_file
                                     ELSE FileWrite(data_file,
                                            self.file_meta.start_pos + target, content)
                     /\ Raise("move_within_file", args, "KeyError", Here)
                ELSE /\ open_files' = IF grows THEN WithSize(file_name, new_size)
                                      ELSE open_files
                     /\ data_file' = FileWrite(data_file,
                                               self.file_meta.start_pos + target, content)
                     /\ Return("move_within_file", args, <<>>,
                          _save_metadata(World(
                            IF grows THEN SetSize(fs_metadata, file_name, new_size)
                            ELSE fs_metadata, metadata_file)))

truncate_file(file_name, max_size) ==
    LET self == open_files[file_name]
        args == <<file_name, max_size>>
    IN
    /\ UNCHANGED <<current_path, data_file>>
    /\ IF self.mode # "w"
       THEN /\ UNCHANGED open_files
            /\ Raise("truncate_file", args, "IOError: not write mode", Here)
       ELSE IF max_size < 0
       THEN /\ UNCHANGED open_files
            /\ Raise("truncate_file", args, "ValueError: negative", Here)
       ELSE IF self.file_meta.size <= max_size
       THEN /\ UNCHANGED open_files
            /\ Return("truncate_file", args, <<>>, Here)
       ELSE /\ open_files' = WithSize(file_name, max_size)
            /\ IF ~HasFile(fs_metadata, file_name)
               THEN Raise("truncate_file", args, "KeyError", Here)
               ELSE Return("truncate_file", args, <<>>,
                      _save_metadata(World(SetSize(fs_metadata, file_name, max_size),
                                           metadata_file)))

(***************************************************************************)
(* Sequential use: one caller, every call runs to its end before the next. *)
(***************************************************************************)
\* a whole call A made while no thread is inside a call
Call(A) == (\A t \in Threads : pc[t] = "idle") /\ A /\ UNCHANGED <<pc, local, lock>>

Modes == {"r", "w", "a"}
Texts == {<<"x">>, <<"E">>}
DirNames == {<<"d">>}
ChdirArgs == {<<".">>, <<".", ".">>, <<SLASH>>, <<"d">>, <<SLASH, "d">>}
MoveTargets == {<<"d">>, <<SLASH>>, <<SLASH, "d">>, <<"d", SLASH>>}
\* the files that are opened and moved in the namespace runs
OpenNames == {"a"}

(***************************************************************************)
(* Spec: the namespace operations (create, delete, mkdir, chdir, move,     *)
(* open, close) on two names and the directories /, /d, /d/d.              *)
(***************************************************************************)
Create == \E n \in Names : Call(create(n))
Delete == \E n \in Names : Call(delete(n))
Mkdir == \E d \in DirNames : Call(mkdir(d))
Chdir == \E d \in ChdirArgs : Call(chdir(d))
Move == \E n \in OpenNames, t \in MoveTargets : Call(move(n, t))
Open == \E n \in OpenNames, m \in Modes : Call(open(n, m))
Close == \E n \in OpenNames : Call(close(n))

Next == Create \/ Delete \/ Mkdir \/ Chdir \/ Move \/ Open \/ Close

Spec == Init /\ [][Next]_vars

(***************************************************************************)
(* SpecData: the handle operations on two files in the root directory.     *)
(***************************************************************************)
DataCreate == \E n \in Names : Call(create(n))
DataOpen == \E n \in Names, m \in {"r", "w"} : Call(open(n, m))
DataClose == \E n \in Names : Call(close(n))
DataAppend == \E n \in DOMAIN open_files, t \in Texts : Call(write_to_file(n, t))
DataWriteAt == \E n \in DOMAIN open_files : Call(write_to_file_at(n, MaxSize, <<"x">>))
DataReadAt == \E n \in DOMAIN open_files : Call(read_from_file_at(n, 0, 1))
DataMoveWithin == \E n \in DOMAIN open_files : Call(move_within_file(n, 0, 1, 1))
DataTruncate == \E n \in DOMAIN open_files : Call(truncate_file(n, 1))

NextData ==
    \/ DataCreate \/ DataOpen \/ DataClose \/ DataAppend \/ DataWriteAt
    \/ DataReadAt \/ DataMoveWithin \/ DataTruncate

SpecData == Init /\ [][NextData]_vars

(***************************************************************************)
(* SpecAlloc: files that are created, written, closed and deleted.         *)
(***************************************************************************)
AllocCreate == \E n \in Names : Call(create(n))
AllocOpen == \E n \in Names : Call(open(n, "w"))
AllocClose == \E n \in Names : Call(close(n))
AllocAppend == \E n \in DOMAIN open_files, t \in Texts : Call(write_to_file(n, t))
AllocDelete == \E n \in Names : Call(delete(n))

NextAlloc == AllocCreate \/ AllocOpen \/ AllocClose \/ AllocAppend \/ AllocDelete

SpecAlloc == Init /\ [][NextAlloc]_vars

(***************************************************************************)
(* SpecDir: the directory operations (mkdir, chdir, move of one file),     *)
(* with the directory names a caller can type: a bare name and a name that *)
(* holds a separator.                                                      *)
(***************************************************************************)
PathNames == {<<"d">>, <<"d", SLASH, "d">>}

DirCreate == Call(create("a"))
DirMkdir == \E d \in PathNames : Call(mkdir(d))
DirChdir == \E d \in ChdirArgs \cup PathNames : Call(chdir(d))
DirMove == \E t \in MoveTargets : Call(move("a", t))

NextDir == DirCreate \/ DirMkdir \/ DirChdir \/ DirMove

SpecDir == Init /\ [][NextDir]_vars

(***************************************************************************)
(* SpecAppend: one file that is created, opened, appended to, read and     *)
(* closed.                                                                 *)
(***************************************************************************)
AppendCreate == Call(create("a"))
AppendOpen == \E m \in Modes : Call(open("a", m))
AppendClose == Call(close("a"))
AppendWrite == \E t \in Texts : "a" \in DOMAIN open_files /\ Call(write_to_file("a", t))
AppendRead == "a" \in DOMAIN open_files /\ Call(read_from_file("a"))

NextAppend == AppendCreate \/ AppendOpen \/ AppendClose \/ AppendWrite \/ AppendRead

SpecAppend == Init /\ [][NextAppend]_vars

(***************************************************************************)
(* SpecHandle: every handle operation on the file a.  The positions and    *)
(* sizes include a negative one, the end of the arena, and ranges that     *)
(* overlap or reach past the end of the file.                              *)
(***************************************************************************)
\* write_at of write_to_file_at
WriteOffsets == {-1, 0, MaxSize}
\* (start, size) of read_from_file_at
ReadRanges == {<<-1, 1>>, <<0, -1>>, <<0, 1>>, <<1, 2>>}
\* (start, size, target) of move_within_file
MoveRanges == {<<-1, 1, 0>>, <<0, 1, 1>>, <<0, 2, 1>>, <<1, 2, 0>>}
\* max_size of truncate_file
TruncateSizes == {-1, 0, 1}

HandleCreate == Call(create("a"))
HandleOpen == \E m \in {"r", "w"} : Call(open("a", m))
HandleClose == Call(close("a"))
HandleAppend == "a" \in DOMAIN open_files /\ Call(write_to_file("a", <<"x">>))
HandleWriteAt ==
    \E at \in WriteOffsets :
        \E t \in Texts : "a" \in DOMAIN open_files /\ Call(write_to_file_at("a", at, t))
HandleReadAll == "a" \in DOMAIN open_files /\ Call(read_from_file("a"))
HandleReadAt ==
    \E r \in ReadRanges :
        "a" \in DOMAIN open_files /\ Call(read_from_file_at("a", r[1], r[2]))
HandleMoveWithin ==
    \E r \in MoveRanges :
        "a" \in DOMAIN open_files /\ Call(move_within_file("a", r[1], r[2], r[3]))
HandleTruncate ==
    \E m \in TruncateSizes : "a" \in DOMAIN open_files /\ Call(truncate_file("a", m))

NextHandle ==
    \/ HandleCreate \/ HandleOpen \/ HandleClose \/ HandleAppend \/ HandleWriteAt
    \/ HandleReadAll \/ HandleReadAt \/ HandleMoveWithin \/ HandleTruncate

SpecHandle == Init /\ [][NextHandle]_vars

(***************************************************************************)
(* SpecTruncate: two files that are written and truncated.                 *)
(***************************************************************************)
\* max_size of truncate_file: the empty file and a one-byte file
ShorterSizes == {0, 1}

TruncCreate == \E n \in Names : Call(create(n))
TruncMkdir == Call(mkdir(<<"d">>))
TruncOpen == \E n \in Names : Call(open(n, "w"))
TruncClose == \E n \in Names : Call(close(n))
TruncAppend == \E n \in DOMAIN open_files : Call(write_to_file(n, <<"x">>))
TruncTruncate ==
    \E n \in DOMAIN open_files, m \in ShorterSizes : Call(truncate_file(n, m))

NextTruncate ==
    \/ TruncCreate \/ TruncMkdir \/ TruncOpen \/ TruncClose \/ TruncAppend
    \/ TruncTruncate

SpecTruncate == Init /\ [][NextTruncate]_vars

(***************************************************************************)
(* SpecPersist: the operations that save the metadata, and a new           *)
(* FileSystem object made on the files the last one left.                  *)
(***************************************************************************)
\* FileSystem.__init__ when the metadata file and the data file exist:
\* _initialize loads the metadata; nothing is open, the current directory
\* is the root
_initialize ==
    /\ fs_metadata' = LoadMetadata(metadata_file)
    /\ open_files' = <<>>
    /\ current_path' = ROOT
    /\ UNCHANGED <<data_file, metadata_file>>
    /\ last' = Result("_initialize", <<>>, "ok", <<>>)

PersistCreate == \E n \in Names : Call(create(n))
PersistDelete == Call(delete("a"))
PersistMkdir == Call(mkdir(<<"d">>))
PersistMove == Call(move("a", <<"d">>))
PersistOpen == \E n \in Names : Call(open(n, "w"))
PersistClose == Call(close("a"))
PersistAppend == "a" \in DOMAIN open_files /\ Call(write_to_file("a", <<"x">>))
PersistWriteAt == "a" \in DOMAIN open_files /\ Call(write_to_file_at("a", 1, <<"x">>))
PersistMoveWithin == \E n \in DOMAIN open_files : Call(move_within_file(n, 0, 1, 1))
PersistTruncate == "a" \in DOMAIN open_files /\ Call(truncate_file("a", 0))
PersistRestart == Call(_initialize)

NextPersist ==
    \/ PersistCreate \/ PersistDelete \/ PersistMkdir \/ PersistMove
    \/ PersistOpen \/ PersistClose \/ PersistAppend \/ PersistWriteAt
    \/ PersistMoveWithin \/ PersistTruncate \/ PersistRestart

SpecPersist == Init /\ [][NextPersist]_vars

(***************************************************************************)
(* SpecStale: one file and a caller that keeps the FileObject an earlier   *)
(* open returned after a second open has replaced it in open_files.  The   *)
(* kept FileObject is held in the locals of the caller; its file_meta is   *)
(* the dict of the FileRecord, which every FileObject of the file shares.  *)
(***************************************************************************)
\* the caller that keeps the earlier FileObject
Keeper == 1

\* the kept FileObject sees the FileRecord as md has it
Shared_file_meta(locals, md) ==
    IF locals = NoLocals THEN locals
    ELSE [held |-> [locals.held EXCEPT !.file_meta = md.files["a"]]]

StaleCreate == Call(create("a"))

\* open("a", "w"): self.open_files[file_name] = file_obj replaces the
\* FileObject of an earlier open, which the caller still has
StaleOpen ==
    /\ \A t \in Threads : pc[t] = "idle"
    /\ open("a", "w")
    /\ UNCHANGED <<pc, lock>>
    /\ local' = IF "a" \in DOMAIN open_files /\ last'.res = "ok"
                THEN [local EXCEPT ![Keeper] = [held |-> open_files["a"]]]
                ELSE local

\* write_to_file through the FileObject that open_files holds
StaleAppend ==
    \E t \in Texts :
        /\ \A u \in Threads : pc[u] = "idle"
        /\ "a" \in DOMAIN open_files
        /\ write_to_file("a", t)
        /\ UNCHANGED <<pc, lock>>
        /\ local' = [local EXCEPT ![Keeper] = Shared_file_meta(@, fs_metadata')]

\* write_to_file through the kept FileObject
HeldAppend ==
    \E text \in Texts :
        /\ \A u \in Threads : pc[u] = "idle"
        /\ local[Keeper] # NoLocals
        /\ LET self == local[Keeper].held
               content == self.content \o text
               size == Len(Encode(content))
           IN  /\ self.mode = "w"
               /\ Len(content) <= MaxLen
               /\ HasFile(fs_metadata, "a")
               /\ data_file' = FileWrite(data_file, self.file_meta.start_pos,
                                         Encode(content))
               /\ open_files' = IF "a" \in DOMAIN open_files
                                THEN [open_files EXCEPT !["a"].file_meta.size = size]
                                ELSE open_files
               /\ local' = [local EXCEPT ![Keeper] =
                              [held |-> [self EXCEPT !.content = content,
                                                     !.file_meta.size = size]]]
               /\ Return("write_to_file", <<"a", text>>, <<>>,
                         _save_metadata(World(
                            [fs_metadata EXCEPT !.files["a"].size = size],
                            metadata_file)))
        /\ UNCHANGED <<current_path, pc, lock>>

NextStale == StaleCreate \/ StaleOpen \/ StaleAppend \/ HeldAppend

SpecStale == Init /\ [][NextStale]_vars

(***************************************************************************)
(* SpecAllocator: the allocator alone.  A caller allocates ranges of an    *)
(* arena whose free list starts as one block and releases ranges it was    *)
(* handed and still has; the ranges it has are in its locals.              *)
(***************************************************************************)
\* the capacity of the arena the allocator is given
ArenaSize == MaxBlocks + 1

\* the caller of the allocator
Caller == 1

\* sizes of a release that has nothing to release
EmptySizes == {-1, 0}

AllocatorInit ==
    /\ fs_metadata = [InitMetadata EXCEPT !.max_size = ArenaSize,
                                          !.free_space = <<<<0, ArenaSize>>>>]
    /\ open_files = <<>>
    /\ current_path = ROOT
    /\ data_file = [i \in 1..ArenaSize |-> 0]
    /\ metadata_file = json_dump(metadata_copy(fs_metadata))
    /\ last = Result("init", <<>>, "ok", <<>>)
    /\ pc = [t \in Threads |-> "idle"]
    /\ local = [t \in Threads |-> IF t = Caller THEN [ranges |-> {}] ELSE NoLocals]
    /\ lock = Unlocked

\* start = self._allocate_space(size)
AllocatorAllocate ==
    \E size \in 0..ArenaSize :
        LET al == _allocate_space(fs_metadata, size) IN
        /\ fs_metadata' = al.md
        /\ local' = IF al.ok
                    THEN [local EXCEPT ![Caller].ranges = @ \cup {<<al.start, size>>}]
                    ELSE local
        /\ last' = Result("_allocate_space", <<size>>,
                          IF al.ok THEN "ok" ELSE "IOError: no free space",
                          IF al.ok THEN <<al.start>> ELSE <<>>)
        /\ UNCHANGED <<open_files, current_path, data_file, metadata_file, pc, lock>>

\* self._release_space(start, size) of a range the caller has
AllocatorRelease ==
    \E r \in local[Caller].ranges :
        /\ fs_metadata' = _release_space(fs_metadata, r[1], r[2])
        /\ local' = [local EXCEPT ![Caller].ranges = @ \ {r}]
        /\ last' = Result("_release_space", r, "ok", <<>>)
        /\ UNCHANGED <<open_files, current_path, data_file, metadata_file, pc, lock>>

\* self._release_space(start, size) with no bytes to release
AllocatorReleaseNothing ==
    \E start \in 0..ArenaSize, size \in EmptySizes :
        /\ fs_metadata' = _release_space(fs_metadata, start, size)
        /\ last' = Result("_release_space", <<start, size>>, "ok", <<>>)
        /\ UNCHANGED <<open_files, current_path, data_file, metadata_file, pc, local, lock>>

NextAllocator == AllocatorAllocate \/ AllocatorRelease \/ AllocatorReleaseNothing

SpecAllocator == AllocatorInit /\ [][NextAllocator]_vars

(***************************************************************************)
(* SpecConc: two threads, each making one create or delete call on the     *)
(* shared FileSystem.  Neither handler takes FileSystem.lock, so the       *)
(* threads interleave between the statements of the handlers; the          *)
(* augmented assignments to used_size are a read followed by a write.  A   *)
(* step is one statement (one iteration for the merge loop, the whole scan *)
(* for the best-fit loop, which only reads).  The threads are callers of   *)
(* the public methods of one FileSystem object, as the worker threads of   *)
(* ThreadedFileSystem are of create.                                       *)
(***************************************************************************)
\* the locals of a call of op on file_name
NewLocals(op, file_name) ==
    [op |-> op, file_name |-> file_name, start |-> 0, size |-> 0,
     best_fit_index |-> 0, free_size |-> 0, used |-> 0, i |-> 0,
     metadata_copy |-> <<>>, dict_len |-> 0]

\* the thread moves on to the statement at label
Goto(t, label, locals) ==
    /\ pc' = [pc EXCEPT ![t] = label]
    /\ local' = [local EXCEPT ![t] = locals]

\* the call of the thread returns or raises
Finish(t, res) ==
    /\ pc' = [pc EXCEPT ![t] = "done"]
    /\ local' = local
    /\ last' = Result(local[t].op, <<local[t].file_name>>, res, <<>>)

\* the state the threads start from: after create a, open a w, write "x",
\* close a, create b, open b w, write "E", close b
ConcInit ==
    /\ fs_metadata =
         [max_size |-> MaxSize,
          used_size |-> 0,
          files |-> [n \in {"a", "b"} |->
                       [name |-> n, size |-> IF n = "a" THEN 1 ELSE 2,
                        start_pos |-> 0, is_directory |-> FALSE]],
          directories |-> (ROOT :> [name |-> ROOT, files |-> <<"a", "b">>,
                                    subdirectories |-> <<>>]),
          free_space |-> <<<<0, MaxSize>>>>]
    /\ open_files = <<>>
    /\ current_path = ROOT
    /\ data_file = FileWrite([i \in 1..MaxSize |-> 0], 0, <<195, 169>>)
    /\ metadata_file = json_dump(metadata_copy(fs_metadata))
    /\ last = Result("close", <<"b">>, "ok", <<>>)
    /\ pc = [t \in Threads |-> "idle"]
    /\ local = [t \in Threads |-> NoLocals]
    /\ lock = Unlocked

\* the names the threads delete and create
ConcNames == {"a", "b", "c"}

Shared == <<fs_metadata, metadata_file>>
Untouched == <<open_files, current_path, data_file, lock>>

\* a thread enters delete(n) or create(n)
ThreadCall(t) ==
    /\ pc[t] = "idle"
    /\ UNCHANGED <<Shared, Untouched, last>>
    /\ \E n \in ConcNames, op \in {"delete", "create"} :
         Goto(t, IF op = "delete" THEN "delete_exists" ELSE "create_exists",
              NewLocals(op, n))

\* delete: if file_name not in self.fs_metadata['files']: raise
DeleteExists(t) ==
    /\ pc[t] = "delete_exists"
    /\ UNCHANGED <<Shared, Untouched>>
    /\ IF ~HasFile(fs_metadata, local[t].file_name)
       THEN Finish(t, "ValueError: does not exist")
       ELSE Goto(t, "delete_open", local[t]) /\ UNCHANGED last

\* delete: if file_name in self.open_files: raise
DeleteOpen(t) ==
    /\ pc[t] = "delete_open"
    /\ UNCHANGED <<Shared, Untouched>>
    /\ IF local[t].file_name \in DOMAIN open_files
       THEN Finish(t, "ValueError: open file")
       ELSE Goto(t, "delete_meta", local[t]) /\ UNCHANGED last

\* delete: file_meta = files[file_name]; the call of _release_space with its
\* start_pos and size, which returns at once when size <= 0
DeleteMeta(t) ==
    /\ pc[t] = "delete_meta"
    /\ UNCHANGED <<Shared, Untouched>>
    /\ IF ~HasFile(fs_metadata, local[t].file_name)
       THEN Finish(t, "KeyError")
       ELSE LET file_meta == fs_metadata.files[local[t].file_name] IN
            /\ Goto(t, IF file_meta.size <= 0 THEN "delete_unlink" ELSE "release_append",
                    [local[t] EXCEPT !.start = file_meta.start_pos,
                                     !.size = file_meta.size])
            /\ UNCHANGED last

\* _release_space: free_space.append((start, size))
ReleaseAppend(t) ==
    /\ pc[t] = "release_append"
    /\ fs_metadata' = [fs_metadata EXCEPT
                         !.free_space = Append(@, <<local[t].start, local[t].size>>)]
    /\ UNCHANGED <<metadata_file, Untouched, last>>
    /\ Goto(t, "release_load", local[t])

\* _release_space: used_size -= size, the read
ReleaseLoad(t) ==
    /\ pc[t] = "release_load"
    /\ UNCHANGED <<Shared, Untouched, last>>
    /\ Goto(t, "release_store", [local[t] EXCEPT !.used = fs_metadata.used_size])

\* _release_space: used_size -= size, the write
ReleaseStore(t) ==
    /\ pc[t] = "release_store"
    /\ fs_metadata' = [fs_metadata EXCEPT !.used_size = local[t].used - local[t].size]
    /\ UNCHANGED <<metadata_file, Untouched, last>>
    /\ Goto(t, "release_sort", local[t])

\* _release_space: free_space.sort(); i = 0
ReleaseSort(t) ==
    /\ pc[t] = "release_sort"
    /\ fs_metadata' = [fs_metadata EXCEPT !.free_space = Sort(@)]
    /\ UNCHANGED <<metadata_file, Untouched, last>>
    /\ Goto(t, "release_merge", [local[t] EXCEPT !.i = 1])

\* _release_space: one iteration of the merge loop (i is 1-based here)
ReleaseMerge(t) ==
    /\ pc[t] = "release_merge"
    /\ UNCHANGED <<metadata_file, Untouched, last>>
    /\ LET fl == fs_metadata.free_space
           i == local[t].i
       IN  IF i >= Len(fl)
           THEN /\ UNCHANGED fs_metadata
                /\ Goto(t, "delete_unlink", local[t])
           ELSE IF fl[i][1] + fl[i][2] = fl[i + 1][1]
           THEN /\ fs_metadata' = [fs_metadata EXCEPT !.free_space =
                      ListPop([fl EXCEPT ![i] = <<fl[i][1], fl[i][2] + fl[i + 1][2]>>],
                              i + 1)]
                /\ Goto(t, "release_merge", local[t])
           ELSE /\ UNCHANGED fs_metadata
                /\ Goto(t, "release_merge", [local[t] EXCEPT !.i = i + 1])

\* delete: the loop that removes the name from the directories
DeleteUnlink(t) ==
    /\ pc[t] = "delete_unlink"
    /\ fs_metadata' = [fs_metadata EXCEPT
                         !.directories = RemoveFromAll(@, local[t].file_name)]
    /\ UNCHANGED <<metadata_file, Untouched, last>>
    /\ Goto(t, "delete_del", local[t])

\* delete: del self.fs_metadata['files'][file_name]
DeleteDel(t) ==
    /\ pc[t] = "delete_del"
    /\ UNCHANGED <<metadata_file, Untouched>>
    /\ IF ~HasFile(fs_metadata, local[t].file_name)
       THEN UNCHANGED fs_metadata /\ Finish(t, "KeyError")
       ELSE /\ fs_metadata' = [fs_metadata EXCEPT !.files = Del(@, local[t].file_name)]
            /\ Goto(t, "delete_save", local[t])
            /\ UNCHANGED last

\* the metadata file just opened for writing: nothing is in it
NoDocument == [empty |-> TRUE]

\* a metadata file that is no JSON document: a dump that stopped part way, or
\* the bytes of two dumps written over each other
Garbled == [garbled |-> TRUE]

\* _save_metadata, up to the point where json.dump starts on the files dict:
\* the shallow copy is made (max_size, used_size and the free_space lists
\* are copied, files and directories are shared with fs_metadata), the file
\* is opened for writing, and the iteration over files begins
SaveOpen(t, label) ==
    /\ metadata_file' = NoDocument
    /\ UNCHANGED <<fs_metadata, Untouched, last>>
    /\ Goto(t, label, [local[t] EXCEPT
                         !.metadata_copy = metadata_copy(fs_metadata),
                         !.dict_len = Cardinality(DOMAIN fs_metadata.files)])

\* json.dump raises when the files dict has changed size since the
\* iteration over it began
DumpResult(t) ==
    IF Cardinality(DOMAIN fs_metadata.files) # local[t].dict_len
    THEN "RuntimeError" ELSE "ok"

\* what the dump of thread t can leave in the metadata file
DumpFiles(t) ==
    IF DumpResult(t) # "ok" THEN {Garbled}
    ELSE LET doc == json_dump([local[t].metadata_copy EXCEPT
                                 !.files = fs_metadata.files,
                                 !.directories = fs_metadata.directories])
         IN  IF metadata_file = NoDocument THEN {doc} ELSE {doc, Garbled}

\* _save_metadata, the rest of json.dump: the iteration over files raises
\* RuntimeError when the dict has changed size since it began; otherwise the
\* document holds the files and directories as they are now.  The file is
\* written through a descriptor of its own: when another dump wrote to the
\* file since this one opened it, the bytes of the two are laid over each
\* other, and the file holds this document or no document at all.
SaveDump(t) ==
    /\ UNCHANGED <<fs_metadata, Untouched>>
    /\ metadata_file' \in DumpFiles(t)
    /\ Finish(t, DumpResult(t))

\* delete: self._save_metadata(), the copy and the opening of the file
DeleteSave(t) ==
    /\ pc[t] = "delete_save"
    /\ SaveOpen(t, "delete_dump")

\* delete: self._save_metadata(), the dump; return True
DeleteDump(t) ==
    /\ pc[t] = "delete_dump"
    /\ SaveDump(t)

\* create: if file_name in self.fs_metadata['files']: raise
CreateExists(t) ==
    /\ pc[t] = "create_exists"
    /\ UNCHANGED <<Shared, Untouched>>
    /\ IF HasFile(fs_metadata, local[t].file_name)
       THEN Finish(t, "ValueError: already exists")
       ELSE Goto(t, "create_curdir", local[t]) /\ UNCHANGED last

\* create: current_dir = self.get_current_directory_meta()
CreateCurDir(t) ==
    /\ pc[t] = "create_curdir"
    /\ LET w == get_current_directory_meta(Here, current_path) IN
       fs_metadata' = w.md /\ metadata_file' = w.disk
    /\ UNCHANGED <<Untouched, last>>
    /\ Goto(t, "allocate_scan", [local[t] EXCEPT !.size = InitialAllocation])

\* _allocate_space: the emptiness test and the best-fit scan
AllocateScan(t) ==
    /\ pc[t] = "allocate_scan"
    /\ UNCHANGED <<Shared, Untouched>>
    /\ LET best == BestFitFrom(fs_metadata.free_space, local[t].size, 1, 0) IN
       IF fs_metadata.free_space = <<>> \/ best = 0
       THEN Finish(t, "IOError: no free space")
       ELSE Goto(t, "allocate_read", [local[t] EXCEPT !.best_fit_index = best])
            /\ UNCHANGED last

\* _allocate_space: start, free_size = free_space[best_fit_index]
AllocateRead(t) ==
    /\ pc[t] = "allocate_read"
    /\ UNCHANGED <<Shared, Untouched>>
    /\ LET fl == fs_metadata.free_space
           k == local[t].best_fit_index
       IN  IF k > Len(fl) THEN Finish(t, "IndexError")
           ELSE Goto(t, "allocate_write",
                     [local[t] EXCEPT !.start = fl[k][1], !.free_size = fl[k][2]])
                /\ UNCHANGED last

\* _allocate_space: the block is popped or shrunk in place
AllocateWrite(t) ==
    /\ pc[t] = "allocate_write"
    /\ UNCHANGED <<metadata_file, Untouched>>
    /\ LET fl == fs_metadata.free_space
           k == local[t].best_fit_index
       IN  IF k > Len(fl) THEN UNCHANGED fs_metadata /\ Finish(t, "IndexError")
           ELSE /\ fs_metadata' = [fs_metadata EXCEPT !.free_space =
                      IF local[t].free_size = local[t].size THEN ListPop(fl, k)
                      ELSE [fl EXCEPT ![k] = <<local[t].start + local[t].size,
                                               local[t].free_size - local[t].size>>]]
                /\ Goto(t, "allocate_load", local[t])
                /\ UNCHANGED last

\* _allocate_space: used_size += size, the read
AllocateLoad(t) ==
    /\ pc[t] = "allocate_load"
    /\ UNCHANGED <<Shared, Untouched, last>>
    /\ Goto(t, "allocate_store", [local[t] EXCEPT !.used = fs_metadata.used_size])

\* _allocate_space: used_size += size, the write; return start
AllocateStore(t) ==
    /\ pc[t] = "allocate_store"
    /\ fs_metadata' = [fs_metadata EXCEPT !.used_size = local[t].used + local[t].size]
    /\ UNCHANGED <<metadata_file, Untouched, last>>
    /\ Goto(t, "create_link", local[t])

\* create: the name is appended to current_dir['files'] unless listed
CreateLink(t) ==
    /\ pc[t] = "create_link"
    /\ fs_metadata' = [fs_metadata EXCEPT !.directories =
                         AddFileOnce(@, current_path, local[t].file_name)]
    /\ UNCHANGED <<metadata_file, Untouched, last>>
    /\ Goto(t, "create_register", local[t])

\* create: self.fs_metadata['files'][file_name] = file_meta
CreateRegister(t) ==
    /\ pc[t] = "create_register"
    /\ fs_metadata' = [fs_metadata EXCEPT !.files =
                         Put(@, local[t].file_name,
                             NewFile(local[t].file_name, local[t].start))]
    /\ UNCHANGED <<metadata_file, Untouched, last>>
    /\ Goto(t, "create_save", local[t])

\* create: self._save_metadata(), the copy and the opening of the file
CreateSave(t) ==
    /\ pc[t] = "create_save"
    /\ SaveOpen(t, "create_dump")

\* create: self._save_metadata(), the dump; return True
CreateDump(t) ==
    /\ pc[t] = "create_dump"
    /\ SaveDump(t)

NextConc ==
    \E t \in Threads :
        \/ ThreadCall(t)
        \/ DeleteExists(t) \/ DeleteOpen(t) \/ DeleteMeta(t)
        \/ ReleaseAppend(t) \/ ReleaseLoad(t) \/ ReleaseStore(t)
        \/ ReleaseSort(t) \/ ReleaseMerge(t)
        \/ DeleteUnlink(t) \/ DeleteDel(t) \/ DeleteSave(t) \/ DeleteDump(t)
        \/ CreateExists(t) \/ CreateCurDir(t)
        \/ AllocateScan(t) \/ AllocateRead(t) \/ AllocateWrite(t)
        \/ AllocateLoad(t) \/ AllocateStore(t)
        \/ CreateLink(t) \/ CreateRegister(t) \/ CreateSave(t) \/ CreateDump(t)

SpecConc == ConcInit /\ [][NextConc]_vars

(***************************************************************************)
(* SpecRace: two worker threads of ThreadedFileSystem, each with the one   *)
(* command create and a name of its own, on a new FileSystem.              *)
(***************************************************************************)
\* the name in the input file of the thread
RaceName(t) == IF t = 1 THEN "a" ELSE "b"

\* process_commands: the thread calls self.file_system.create(args[0])
RaceCall(t) ==
    /\ pc[t] = "idle"
    /\ UNCHANGED <<Shared, Untouched, last>>
    /\ Goto(t, "create_exists", NewLocals("create", RaceName(t)))

NextRace ==
    \E t \in Threads :
        \/ RaceCall(t)
        \/ CreateExists(t) \/ CreateCurDir(t)
        \/ AllocateScan(t) \/ AllocateRead(t) \/ AllocateWrite(t)
        \/ AllocateLoad(t) \/ AllocateStore(t)
        \/ CreateLink(t) \/ CreateRegister(t) \/ CreateSave(t) \/ CreateDump(t)

SpecRace == Init /\ [][NextRace]_vars

(***************************************************************************)
(* SpecLock: two threads, each making one call on the shared FileSystem:   *)
(* write_to_file or write_to_file_at through the FileObject that           *)
(* open_files holds for a, create of b, or open of b for writing.          *)
(* write_to_file takes the lock of the FileObject and, inside it,          *)
(* FileSystem.lock; FileObject.__init__ takes FileSystem.lock to make a    *)
(* new file; the other calls take no lock.  A `with` block gives its lock  *)
(* back when it is left, by its end or by an exception.  file_meta of the  *)
(* FileObject is the dict of the FileRecord, so a size written to one is   *)
(* written to both.                                                        *)
(***************************************************************************)
\* a lock that is taken whoever holds it
AlwaysFree(holder) == TRUE

\* threading.Lock: it can be taken when no thread holds it
Free(holder) == holder = 0

\* a with block that keeps its lock when it is left
KeepLock(holder) == holder

\* the end of a with block: the lock is given back
ReleaseLock(holder) == 0

\* the state the threads start from: after create a, h = open a w,
\* h.write_to_file("x")
LockInit ==
    /\ fs_metadata =
         [InitMetadata EXCEPT
            !.files = [n \in {"a"} |-> [NewFile("a", 0) EXCEPT !.size = 1]],
            !.directories = (ROOT :> [name |-> ROOT, files |-> <<"a">>,
                                      subdirectories |-> <<>>])]
    /\ open_files = [n \in {"a"} |->
                       [mode |-> "w", content |-> <<"x">>,
                        file_meta |-> [NewFile("a", 0) EXCEPT !.size = 1]]]
    /\ current_path = ROOT
    /\ data_file = FileWrite([i \in 1..MaxSize |-> 0], 0, <<120>>)
    /\ metadata_file = json_dump(metadata_copy(fs_metadata))
    /\ last = Result("write_to_file", <<"a", <<"x">>>>, "ok", <<>>)
    /\ pc = [t \in Threads |-> "idle"]
    /\ local = [t \in Threads |-> NoLocals]
    /\ lock = Unlocked

\* the locals of a call with a text and a position
TextLocals(op, file_name, text, write_at) ==
    [text |-> text, write_at |-> write_at, content |-> <<>>, res |-> "ok",
     mode |-> "w", file_meta |-> NewFile(file_name, 0)]
        @@ NewLocals(op, file_name)

\* the position write_to_file_at is called with
LockOffset == 1

\* a thread enters its call
LockCall(t) ==
    /\ pc[t] = "idle"
    /\ UNCHANGED <<Shared, Untouched, last>>
    /\ \/ \E text \in Texts :
            Goto(t, "write_mode", TextLocals("write_to_file", "a", text, 0))
       \/ Goto(t, "write_at_mode",
               TextLocals("write_to_file_at", "a", <<"x">>, LockOffset))
       \/ Goto(t, "create_exists", TextLocals("create", "b", <<>>, 0))
       \/ Goto(t, "open_mode", TextLocals("open", "b", <<>>, 0))

\* write_to_file: if self.mode != 'w': raise
WriteMode(t) ==
    /\ pc[t] = "write_mode"
    /\ UNCHANGED <<Shared, Untouched>>
    /\ IF open_files[local[t].file_name].mode # "w"
       THEN Finish(t, "IOError: not write mode")
       ELSE Goto(t, "write_acquire", local[t]) /\ UNCHANGED last

\* write_to_file: with self.lock, the entry
WriteAcquire(t) ==
    /\ pc[t] = "write_acquire"
    /\ Free(lock.file_object[local[t].file_name])
    /\ lock' = [lock EXCEPT !.file_object[local[t].file_name] = t]
    /\ UNCHANGED <<Shared, open_files, current_path, data_file, last>>
    /\ Goto(t, "write_load", local[t])

\* write_to_file: self.content += text, the read
WriteLoad(t) ==
    /\ pc[t] = "write_load"
    /\ UNCHANGED <<Shared, Untouched, last>>
    /\ Goto(t, "write_store",
            [local[t] EXCEPT !.content = open_files[local[t].file_name].content])

\* write_to_file: self.content += text, the write
WriteStore(t) ==
    /\ pc[t] = "write_store"
    /\ open_files' = [open_files EXCEPT ![local[t].file_name].content =
                         local[t].content \o local[t].text]
    /\ UNCHANGED <<Shared, current_path, data_file, lock, last>>
    /\ Goto(t, "write_data", local[t])

\* write_to_file: df.seek(start_pos); df.write(self.content.encode('utf-8'))
WriteData(t) ==
    /\ pc[t] = "write_data"
    /\ LET self == open_files[local[t].file_name] IN
       data_file' = FileWrite(data_file, self.file_meta.start_pos, Encode(self.content))
    /\ UNCHANGED <<Shared, open_files, current_path, lock, last>>
    /\ Goto(t, "write_size", local[t])

\* write_to_file: self.file_meta['size'] = len(self.content.encode('utf-8'))
WriteSize(t) ==
    /\ pc[t] = "write_size"
    /\ LET n == local[t].file_name
           size == Len(Encode(open_files[n].content))
       IN  /\ open_files' = [open_files EXCEPT ![n].file_meta.size = size]
           /\ fs_metadata' = IF HasFile(fs_metadata, n)
                             THEN [fs_metadata EXCEPT !.files[n].size = size]
                             ELSE fs_metadata
    /\ UNCHANGED <<metadata_file, current_path, data_file, lock, last>>
    /\ Goto(t, "write_fs_acquire", local[t])

\* write_to_file: with self.file_system.lock, the entry
WriteFsAcquire(t) ==
    /\ pc[t] = "write_fs_acquire"
    /\ Free(lock.file_system)
    /\ lock' = [lock EXCEPT !.file_system = t]
    /\ UNCHANGED <<Shared, open_files, current_path, data_file, last>>
    /\ Goto(t, "write_meta", local[t])

\* write_to_file: fs_metadata['files'][file_name]['size'] = file_meta['size']
WriteMeta(t) ==
    /\ pc[t] = "write_meta"
    /\ UNCHANGED <<metadata_file, Untouched, last>>
    /\ LET n == local[t].file_name IN
       IF ~HasFile(fs_metadata, n)
       THEN /\ UNCHANGED fs_metadata
            /\ Goto(t, "write_fs_release", [local[t] EXCEPT !.res = "KeyError"])
       ELSE /\ fs_metadata' = [fs_metadata EXCEPT
                                 !.files[n].size = open_files[n].file_meta.size]
            /\ Goto(t, "write_save", local[t])

\* write_to_file: self.file_system._save_metadata(), the copy and the
\* opening of the file
WriteSave(t) ==
    /\ pc[t] = "write_save"
    /\ SaveOpen(t, "write_dump")

\* write_to_file: self.file_system._save_metadata(), the dump
WriteDump(t) ==
    /\ pc[t] = "write_dump"
    /\ metadata_file' \in DumpFiles(t)
    /\ UNCHANGED <<fs_metadata, Untouched, last>>
    /\ Goto(t, "write_fs_release", [local[t] EXCEPT !.res = DumpResult(t)])

\* write_to_file: the with self.file_system.lock block is left
WriteFsRelease(t) ==
    /\ pc[t] = "write_fs_release"
    /\ lock' = [lock EXCEPT !.file_system = ReleaseLock(@)]
    /\ UNCHANGED <<Shared, open_files, current_path, data_file, last>>
    /\ Goto(t, "write_release", local[t])

\* write_to_file: the with self.lock block is left; the call returns or
\* raises
WriteRelease(t) ==
    /\ pc[t] = "write_release"
    /\ lock' = [lock EXCEPT !.file_object[local[t].file_name] = ReleaseLock(@)]
    /\ UNCHANGED <<Shared, open_files, current_path, data_file>>
    /\ Finish(t, local[t].res)

\* write_to_file_at: the checks of the mode and of the position
WriteAtMode(t) ==
    /\ pc[t] = "write_at_mode"
    /\ UNCHANGED <<Shared, Untouched>>
    /\ IF open_files[local[t].file_name].mode # "w"
       THEN Finish(t, "IOError: not write mode")
       ELSE IF local[t].write_at < 0
       THEN Finish(t, "ValueError: negative")
       ELSE Goto(t, "write_at_size", local[t]) /\ UNCHANGED last

\* write_to_file_at: the size is raised to end_pos when the text ends past it
WriteAtSize(t) ==
    /\ pc[t] = "write_at_size"
    /\ UNCHANGED <<metadata_file, current_path, data_file, lock>>
    /\ LET n == local[t].file_name
           end_pos == local[t].write_at + Len(Encode(local[t].text))
       IN  IF end_pos <= open_files[n].file_meta.size
           THEN /\ UNCHANGED <<fs_metadata, open_files, last>>
                /\ Goto(t, "write_at_data", local[t])
           ELSE IF ~HasFile(fs_metadata, n)
           THEN /\ open_files' = [open_files EXCEPT ![n].file_meta.size = end_pos]
                /\ UNCHANGED fs_metadata
                /\ Finish(t, "KeyError")
           ELSE /\ open_files' = [open_files EXCEPT ![n].file_meta.size = end_pos]
                /\ fs_metadata' = [fs_metadata EXCEPT !.files[n].size = end_pos]
                /\ UNCHANGED last
                /\ Goto(t, "write_at_data", local[t])

\* write_to_file_at: df.seek(start_pos + write_at); df.write(text_bytes)
WriteAtData(t) ==
    /\ pc[t] = "write_at_data"
    /\ LET self == open_files[local[t].file_name] IN
       data_file' = FileWrite(data_file, self.file_meta.start_pos + local[t].write_at,
                              Encode(local[t].text))
    /\ UNCHANGED <<Shared, open_files, current_path, lock, last>>
    /\ Goto(t, "write_at_save", local[t])

\* write_to_file_at: self.file_system._save_metadata(), the copy and the
\* opening of the file
WriteAtSave(t) ==
    /\ pc[t] = "write_at_save"
    /\ SaveOpen(t, "write_at_dump")

\* write_to_file_at: self.file_system._save_metadata(), the dump
WriteAtDump(t) ==
    /\ pc[t] = "write_at_dump"
    /\ SaveDump(t)

\* open: the check of the mode
OpenMode(t) ==
    /\ pc[t] = "open_mode"
    /\ UNCHANGED <<Shared, Untouched>>
    /\ IF local[t].mode \notin {"r", "w"}
       THEN Finish(t, "ValueError: mode")
       ELSE Goto(t, "open_meta", local[t]) /\ UNCHANGED last

\* FileObject.__init__: self.file_meta = get_file_metadata(file_name), and
\* the branch on it
OpenMeta(t) ==
    /\ pc[t] = "open_meta"
    /\ UNCHANGED <<Shared, Untouched>>
    /\ LET n == local[t].file_name IN
       IF HasFile(fs_metadata, n)
       THEN /\ Goto(t, "open_read",
                    [local[t] EXCEPT !.file_meta = fs_metadata.files[n]])
            /\ UNCHANGED last
       ELSE IF local[t].mode # "w"
       THEN Finish(t, "FileNotFoundError")
       ELSE Goto(t, "open_acquire", local[t]) /\ UNCHANGED last

\* FileObject.__init__, new file: with self.file_system.lock, the entry
OpenAcquire(t) ==
    /\ pc[t] = "open_acquire"
    /\ Free(lock.file_system)
    /\ lock' = [lock EXCEPT !.file_system = t]
    /\ UNCHANGED <<Shared, open_files, current_path, data_file, last>>
    /\ Goto(t, "open_body", local[t])

\* FileObject.__init__, new file: the statements inside the lock, up to
\* the KeyError of directories[dir_path] or to the end of the block
OpenBody(t) ==
    /\ pc[t] = "open_body"
    /\ UNCHANGED <<Untouched, last>>
    /\ LET n == local[t].file_name
           al == _allocate_space(fs_metadata, InitialAllocation)
       IN  IF ~al.ok
           THEN /\ UNCHANGED Shared
                /\ Goto(t, "open_release",
                        [local[t] EXCEPT !.res = "IOError: no free space"])
           ELSE LET w1 == get_current_directory_meta(World(al.md, metadata_file),
                                                     current_path)
                    d1 == AddFileOnce(w1.md.directories, current_path, n)
                    path_parts == NonEmpty(Split(current_path))
                    dir_path == IF path_parts # <<>> THEN <<SLASH>> \o Join(path_parts)
                                ELSE <<>>
                IN  IF dir_path \notin DOMAIN d1
                    THEN /\ fs_metadata' = [w1.md EXCEPT !.directories = d1]
                         /\ metadata_file' = w1.disk
                         /\ Goto(t, "open_release", [local[t] EXCEPT !.res = "KeyError"])
                    ELSE LET w2 == _save_metadata(World(
                                     [w1.md EXCEPT
                                        !.directories =
                                            [d1 EXCEPT ![dir_path].files = Append(@, n)],
                                        !.files = Put(@, n, NewFile(n, al.start))],
                                     w1.disk))
                         IN  /\ fs_metadata' = w2.md
                             /\ metadata_file' = w2.disk
                             /\ Goto(t, "open_release",
                                     [local[t] EXCEPT
                                        !.file_meta = NewFile(n, al.start)])

\* FileObject.__init__, new file: the with block is left
OpenRelease(t) ==
    /\ pc[t] = "open_release"
    /\ lock' = [lock EXCEPT !.file_system = ReleaseLock(@)]
    /\ UNCHANGED <<Shared, open_files, current_path, data_file>>
    /\ IF local[t].res # "ok"
       THEN Finish(t, local[t].res)
       ELSE Goto(t, "open_register", local[t]) /\ UNCHANGED last

\* FileObject.__init__, file found: its bytes are read into self.content
OpenRead(t) ==
    /\ pc[t] = "open_read"
    /\ UNCHANGED <<Shared, Untouched>>
    /\ LET bytes == FileRead(data_file, local[t].file_meta.start_pos,
                             local[t].file_meta.size)
       IN  IF ~Decodable(bytes) THEN Finish(t, "UnicodeDecodeError")
           ELSE /\ Goto(t, "open_register",
                        [local[t] EXCEPT !.content = RStrip(Decode(bytes), "NUL")])
                /\ UNCHANGED last

\* open: self.open_files[file_name] = file_obj; return file_obj
OpenRegister(t) ==
    /\ pc[t] = "open_register"
    /\ LET n == local[t].file_name IN
       open_files' = Put(open_files, n,
                         [mode |-> local[t].mode, content |-> local[t].content,
                          file_meta |-> local[t].file_meta])
    /\ UNCHANGED <<Shared, current_path, data_file, lock>>
    /\ Finish(t, "ok")

\* one statement of thread t
LockStep(t) ==
    \/ LockCall(t)
    \/ WriteMode(t) \/ WriteAcquire(t) \/ WriteLoad(t) \/ WriteStore(t)
    \/ WriteData(t) \/ WriteSize(t) \/ WriteFsAcquire(t) \/ WriteMeta(t)
    \/ WriteSave(t) \/ WriteDump(t) \/ WriteFsRelease(t) \/ WriteRelease(t)
    \/ WriteAtMode(t) \/ WriteAtSize(t) \/ WriteAtData(t) \/ WriteAtSave(t)
    \/ WriteAtDump(t)
    \/ OpenMode(t) \/ OpenMeta(t) \/ OpenAcquire(t) \/ OpenBody(t)
    \/ OpenRelease(t) \/ OpenRead(t) \/ OpenRegister(t)
    \/ CreateExists(t) \/ CreateCurDir(t)
    \/ AllocateScan(t) \/ AllocateRead(t) \/ AllocateWrite(t)
    \/ AllocateLoad(t) \/ AllocateStore(t)
    \/ CreateLink(t) \/ CreateRegister(t) \/ CreateSave(t) \/ CreateDump(t)

NextLock == \E t \in Threads : LockStep(t)

SpecLock == LockInit /\ [][NextLock]_vars

(***************************************************************************)
(* SpecGuard: one thread deletes a file while the other opens one; the     *)
(* files are closed when the threads start.  Neither delete nor the open   *)
(* of a file that exists takes a lock.                                     *)
(***************************************************************************)
GuardNames == {"a", "b"}

GuardModes == {"r", "w", "a"}

\* a thread enters delete(n) or open(n, mode)
GuardCall(t) ==
    /\ pc[t] = "idle"
    /\ UNCHANGED <<Shared, Untouched, last>>
    /\ \E n \in GuardNames :
         \/ Goto(t, "delete_exists", TextLocals("delete", n, <<>>, 0))
         \/ \E mode \in GuardModes :
              Goto(t, "open_mode",
                   [TextLocals("open", n, <<>>, 0) EXCEPT !.mode = mode])

\* one statement of thread t
GuardStep(t) ==
    \/ GuardCall(t)
    \/ DeleteExists(t) \/ DeleteOpen(t) \/ DeleteMeta(t)
    \/ ReleaseAppend(t) \/ ReleaseLoad(t) \/ ReleaseStore(t)
    \/ ReleaseSort(t) \/ ReleaseMerge(t)
    \/ DeleteUnlink(t) \/ DeleteDel(t) \/ DeleteSave(t) \/ DeleteDump(t)
    \/ OpenMode(t) \/ OpenMeta(t) \/ OpenAcquire(t) \/ OpenBody(t)
    \/ OpenRelease(t) \/ OpenRead(t) \/ OpenRegister(t)

NextGuard == \E t \in Threads : GuardStep(t)

SpecGuard == ConcInit /\ [][NextGuard]_vars

\* the threads of ThreadedFileSystem.run: every thread that can take a step
\* is given one in the end
SpecLockFair == SpecLock /\ \A t \in Threads : WF_vars(LockStep(t))

(***************************************************************************)
(* Properties.                                                             *)
(***************************************************************************)
\* the bytes of the data file in the range the FileRecord of n in md names
StoredBytes(md, bytes, n) ==
    FileRead(bytes, md.files[n].start_pos, md.files[n].size)

\* the handle operations that write
WriteOps == {"write_to_file", "write_to_file_at", "move_within_file", "truncate_file"}

\* C1: data isolation between files: a write made through the handle of one
\* file never changes the bytes stored for another file.
C1_DataIsolation ==
    [][\A a \in DOMAIN fs_metadata.files :
         (last'.op \in WriteOps /\ last'.args[1] # a)
            => StoredBytes(fs_metadata, data_file', a)
                 = StoredBytes(fs_metadata, data_file, a)]_vars

\* the range [start_pos, start_pos + size) of a FileRecord
RangeEnd(f) == f.start_pos + f.size
Disjoint(f, g) == RangeEnd(f) <= g.start_pos \/ RangeEnd(g) <= f.start_pos

\* C2: the occupied ranges of two distinct FileRecords of size > 0 never
\* intersect.
C2_RangesDisjoint ==
    \A a, b \in DOMAIN fs_metadata.files :
        (a # b /\ fs_metadata.files[a].size > 0 /\ fs_metadata.files[b].size > 0)
            => Disjoint(fs_metadata.files[a], fs_metadata.files[b])

\* C3: every FileRecord ends within the arena: start_pos + size <= max_size.
C3_WithinCapacity ==
    \A n \in DOMAIN fs_metadata.files :
        RangeEnd(fs_metadata.files[n]) <= fs_metadata.max_size

\* a free list sorted by start, without overlapping and without adjacent blocks
WellFormed(fl) ==
    \A i, j \in 1..Len(fl) :
        i < j => /\ fl[i][1] <= fl[j][1]
                 /\ fl[i][1] + fl[i][2] <= fl[j][1]
                 /\ fl[i][1] + fl[i][2] # fl[j][1]

\* C4: the free list is always sorted by start, its blocks do not overlap and
\* no two blocks are adjacent.
C4_FreeListWellFormed == WellFormed(fs_metadata.free_space)

\* the bytes taken from the free list for the files of md and not released:
\* each file was given InitialAllocation bytes, and no call allocates more
AllocatedBytes(md) == Cardinality(DOMAIN md.files) * InitialAllocation

\* C6: used_size equals the total length of the segments allocated to the
\* existing FileRecords; in particular it never becomes negative.
C6_UsedIsAllocated ==
    /\ fs_metadata.used_size = AllocatedBytes(fs_metadata)
    /\ fs_metadata.used_size >= 0

\* how many entries of the files lists of all directories name n
Listings(md, n) ==
    Cardinality({pi \in UNION {{<<p, i>> : i \in 1..Len(md.directories[p].files)} :
                                 p \in DOMAIN md.directories} :
                   md.directories[pi[1]].files[pi[2]] = n})

\* C7: every file of files is listed exactly once, in exactly one directory,
\* and every name a directory lists is a file of files.
C7_SingleOwner ==
    /\ \A n \in DOMAIN fs_metadata.files : Listings(fs_metadata, n) = 1
    /\ \A p \in DOMAIN fs_metadata.directories :
         \A i \in 1..Len(fs_metadata.directories[p].files) :
            fs_metadata.directories[p].files[i] \in DOMAIN fs_metadata.files

\* C8: a call that raises leaves the metadata, the open-handle table and the
\* current path as they were.
C8_FailureChangesNothing ==
    [][last'.res # "ok" => UNCHANGED <<fs_metadata, open_files, current_path>>]_vars

\* C9: open(name, 'w') of a name that is no FileRecord succeeds in every
\* current directory: it registers a FileRecord of size 0, lists the name in
\* the current directory and tracks a handle with an empty buffer.
C9_OpenWriteCreates ==
    [][\A n \in Names :
         (last'.op = "open" /\ last'.args = <<n, "w">> /\ ~HasFile(fs_metadata, n))
            => /\ last'.res = "ok"
               /\ HasFile(fs_metadata', n)
               /\ fs_metadata'.files[n].size = 0
               /\ InList(n, fs_metadata'.directories[current_path].files)
               /\ n \in DOMAIN open_files'
               /\ open_files'[n].content = <<>>]_vars

\* C10: create of a name that is already a FileRecord fails with "already
\* exists" whatever the current directory, and changes nothing.
C10_CreateExistingFails ==
    [][\A n \in Names :
         (last'.op = "create" /\ last'.args = <<n>> /\ HasFile(fs_metadata, n))
            => /\ last'.res = "ValueError: already exists"
               /\ UNCHANGED <<fs_metadata, open_files, current_path, metadata_file>>]_vars

\* a create has just failed on a name whose file lives in another directory
\* than the current one
C10_Witness ==
    /\ last.op = "create"
    /\ last.res = "ValueError: already exists"
    /\ current_path # ROOT
    /\ ~InList(last.args[1], fs_metadata.directories[current_path].files)
    /\ InList(last.args[1], fs_metadata.directories[ROOT].files)

\* no thread is inside a call
Quiescent == \A t \in Threads : pc[t] \in {"idle", "done"}

\* the sum of the lengths of the blocks of a free list
RECURSIVE SumLengths(_)
SumLengths(fl) == IF fl = <<>> THEN 0 ELSE Head(fl)[2] + SumLengths(Tail(fl))

\* C5: whenever no call is in progress, used_size plus the lengths of the
\* free blocks is the capacity, whatever the interleaving of the threads.
C5_SpaceConserved ==
    Quiescent =>
        fs_metadata.used_size + SumLengths(fs_metadata.free_space) = fs_metadata.max_size

\* the start of a block a zero-length best-fit allocation picks from fl: a
\* block no longer than any other
ZeroLengthStarts(fl) ==
    {fl[i][1] : i \in {k \in 1..Len(fl) : \A j \in 1..Len(fl) : fl[k][2] <= fl[j][2]}}

\* C11: a successful create(name) registers a FileRecord of size 0 whose
\* start_pos comes from a zero-length allocation, lists name in the current
\* directory, and changes no other directory, no other FileRecord, and neither
\* the free list nor used_size.
C11_CreateRegisters ==
    [][\A n \in Names :
         (last'.op = "create" /\ last'.args = <<n>> /\ last'.res = "ok")
            => /\ DOMAIN fs_metadata'.files = DOMAIN fs_metadata.files \cup {n}
               /\ fs_metadata'.files[n].size = 0
               /\ fs_metadata'.files[n].start_pos \in ZeroLengthStarts(fs_metadata.free_space)
               /\ InList(n, fs_metadata'.directories[current_path].files)
               /\ DOMAIN fs_metadata'.directories = DOMAIN fs_metadata.directories
               /\ \A p \in DOMAIN fs_metadata.directories \ {current_path} :
                     fs_metadata'.directories[p] = fs_metadata.directories[p]
               /\ \A m \in DOMAIN fs_metadata.files :
                     fs_metadata'.files[m] = fs_metadata.files[m]
               /\ fs_metadata'.free_space = fs_metadata.free_space
               /\ fs_metadata'.used_size = fs_metadata.used_size]_vars

\* a create has just succeeded in a directory other than the root, next to
\* another file
C11_Witness ==
    /\ last.op = "create"
    /\ last.res = "ok"
    /\ current_path # ROOT
    /\ InList(last.args[1], fs_metadata.directories[current_path].files)
    /\ Cardinality(DOMAIN fs_metadata.files) = 2

\* C12: delete(name) and move(name, dir) of a name that has a handle in the
\* open-handle table fail with "open file" and leave the metadata (files,
\* directories, free list, used_size) and the table unchanged.
C12_OpenFileProtected ==
    [][\A n \in Names :
         (last'.op \in {"delete", "move"} /\ last'.args[1] = n /\ n \in DOMAIN open_files)
            => /\ last'.res = "ValueError: open file"
               /\ UNCHANGED <<fs_metadata, open_files, metadata_file>>]_vars

\* a move of an open file to a directory that does not exist has just failed
C12_Witness ==
    /\ last.op = "move"
    /\ last.res = "ValueError: open file"
    /\ last.args[1] \in DOMAIN open_files
    /\ Under(current_path, last.args[2]) \notin DOMAIN fs_metadata.directories

\* the range [start, start + size) lies within one block of the free list fl
Covered(fl, start, size) ==
    \E i \in 1..Len(fl) : fl[i][1] <= start /\ start + size <= fl[i][1] + fl[i][2]

\* C13: after a successful delete(name), name is no key of files, no
\* directory lists name, and the range of the file is back in the free list.
C13_DeleteRemoves ==
    [][\A n \in Names :
         (last'.op = "delete" /\ last'.args = <<n>> /\ last'.res = "ok")
            => /\ ~HasFile(fs_metadata', n)
               /\ \A p \in DOMAIN fs_metadata'.directories :
                     ~InList(n, fs_metadata'.directories[p].files)
               /\ fs_metadata.files[n].size > 0
                     => Covered(fs_metadata'.free_space,
                                fs_metadata.files[n].start_pos,
                                fs_metadata.files[n].size)]_vars

\* the directory a move target names: relative to the current path unless
\* absolute, trailing separators stripped, the root for a path of separators
ResolvedTarget(path, target_dir) ==
    LET abs == IF target_dir # <<>> /\ Head(target_dir) = SLASH THEN target_dir
               ELSE IF path = ROOT THEN path \o target_dir
               ELSE path \o <<SLASH>> \o target_dir
        stripped == RStrip(abs, SLASH)
    IN  IF stripped = <<>> THEN ROOT ELSE stripped

\* C14: move(fileName, targetDir) of an existing file that is not open
\* succeeds for every target: afterwards the resolved target directory exists
\* and lists fileName, no other directory lists it, and files, the free list
\* and used_size are unchanged.
C14_MoveSucceeds ==
    [][\A n \in Names :
         (last'.op = "move" /\ last'.args[1] = n /\ HasFile(fs_metadata, n)
            /\ n \notin DOMAIN open_files)
            => LET tgt == ResolvedTarget(current_path, last'.args[2]) IN
               /\ last'.res = "ok"
               /\ tgt \in DOMAIN fs_metadata'.directories
               /\ InList(n, fs_metadata'.directories[tgt].files)
               /\ \A p \in DOMAIN fs_metadata'.directories \ {tgt} :
                     ~InList(n, fs_metadata'.directories[p].files)
               /\ fs_metadata'.files = fs_metadata.files
               /\ fs_metadata'.free_space = fs_metadata.free_space
               /\ fs_metadata'.used_size = fs_metadata.used_size]_vars

\* how many entries of the list l are x
Count(x, l) == Cardinality({i \in 1..Len(l) : l[i] = x})

C16_CurrentPathExists == current_path \in DOMAIN fs_metadata.directories

\* the parent of a path: the path without its last segment, the root for the
\* root and for a path of one segment
ParentPath(path) ==
    LET parts == NonEmpty(Split(path)) IN
    IF Len(parts) <= 1 THEN ROOT
    ELSE <<SLASH>> \o Join(SubSeq(parts, 1, Len(parts) - 1))

\* C17: chdir resolves the five path forms: '.' keeps the current path, '..'
\* goes to the parent (the root stays the root), '/' goes to the root, a bare
\* name of an existing sub-directory appends to the current path, and the
\* absolute path of an existing directory becomes the current path.
C17_ChdirResolves ==
    [][last'.op = "chdir"
         => LET dir_name == last'.args[1] IN
            /\ dir_name = <<".">> => last'.res = "ok" /\ current_path' = current_path
            /\ dir_name = <<".", ".">>
                  => last'.res = "ok" /\ current_path' = ParentPath(current_path)
            /\ dir_name = <<SLASH>> => last'.res = "ok" /\ current_path' = ROOT
            /\ (/\ dir_name \in DirNames
                /\ ResolvedTarget(current_path, dir_name) \in DOMAIN fs_metadata.directories)
                  => /\ last'.res = "ok"
                     /\ current_path' = ResolvedTarget(current_path, dir_name)
            /\ (/\ Len(dir_name) > 1
                /\ Head(dir_name) = SLASH
                /\ dir_name \in DOMAIN fs_metadata.directories)
                  => last'.res = "ok" /\ current_path' = dir_name]_vars

\* C18: the open-handle table holds one handle per name: open(name, mode)
\* with a valid mode on a name that is already open does not fail and maps
\* name to the new handle, and every successful open leaves name mapped to
\* the handle it built.
C18_OpenReplaces ==
    [][\A n \in Names, m \in {"r", "w"} :
         (last'.op = "open" /\ last'.args = <<n, m>>)
            => /\ n \in DOMAIN open_files => last'.res = "ok"
               /\ last'.res = "ok"
                     => /\ DOMAIN open_files' = DOMAIN open_files \cup {n}
                        /\ open_files'[n].mode = m
                        /\ open_files'[n].file_meta = fs_metadata'.files[n]
                        /\ Encode(open_files'[n].content)
                              = Encode(RStrip(Decode(StoredBytes(fs_metadata', data_file, n)),
                                              "NUL"))]_vars

\* C19: close(name) fails with "not open" and changes nothing when name has
\* no handle in the open-handle table (so a second close in a row fails);
\* otherwise it removes name from the table, keeps the other handles, and
\* leaves files, directories and the free list unchanged.
C19_CloseUnregisters ==
    [][\A n \in Names :
         (last'.op = "close" /\ last'.args = <<n>>)
            => IF n \notin DOMAIN open_files
               THEN /\ last'.res = "ValueError: not open"
                    /\ UNCHANGED <<fs_metadata, open_files, current_path, metadata_file>>
               ELSE /\ last'.res = "ok"
                    /\ DOMAIN open_files' = DOMAIN open_files \ {n}
                    /\ \A m \in DOMAIN open_files' : open_files'[m] = open_files[m]
                    /\ fs_metadata'.files = fs_metadata.files
                    /\ fs_metadata'.directories = fs_metadata.directories
                    /\ fs_metadata'.free_space = fs_metadata.free_space]_vars

\* a close has just taken the handle of an existing file out of the table
C19_Witness ==
    /\ last.op = "close"
    /\ last.res = "ok"
    /\ HasFile(fs_metadata, last.args[1])
    /\ last.args[1] \notin DOMAIN open_files

\* C20: append (write_to_file) of text on a write handle whose buffer is c
\* sets the buffer to c + text, writes the bytes of c + text to the data file
\* from the start_pos of the file, and sets the size recorded in the handle
\* and in the metadata to the byte length of c + text.
C20_AppendRewrites ==
    [][\A n \in Names, t \in Texts :
         (/\ last'.op = "write_to_file"
          /\ last'.args = <<n, t>>
          /\ open_files[n].mode = "w")
            => LET c == open_files[n].content
                   bytes == Encode(c \o t)
               IN  /\ last'.res = "ok"
                   /\ open_files'[n].content = c \o t
                   /\ FileRead(data_file', fs_metadata.files[n].start_pos, Len(bytes)) = bytes
                   /\ open_files'[n].file_meta.size = Len(bytes)
                   /\ fs_metadata'.files[n].size = Len(bytes)]_vars

\* an append of one character to a buffer that held one has just rewritten
\* the three bytes of "x" followed by U+00E9
C20_Witness ==
    /\ last.op = "write_to_file"
    /\ last.res = "ok"
    /\ last.args[2] = <<"E">>
    /\ open_files[last.args[1]].content = <<"x", "E">>
    /\ fs_metadata.files[last.args[1]].size = 3

Max(x, y) == IF x >= y THEN x ELSE y
Min(x, y) == IF x <= y THEN x ELSE y

\* the bytes of the data file at positions [from, from + n) are as before
\* everywhere outside that range
SameOutside(from, n) ==
    \A i \in 1..Len(data_file) :
        (i <= from \/ i > from + n) => data_file'[i] = data_file[i]

\* C21: writeAt(offset, text) with offset >= 0 on a write handle of a file of
\* size S writes the bytes of text from position start_pos + offset, sets the
\* recorded size (handle and metadata) to max(S, offset + byte length of
\* text), and leaves the buffer of the handle and every byte of the data
\* file outside the written range unchanged.
C21_WriteAtPositional ==
    [][\A n \in Names, at \in WriteOffsets, t \in Texts :
         (/\ last'.op = "write_to_file_at"
          /\ last'.args = <<n, at, t>>
          /\ at >= 0
          /\ open_files[n].mode = "w")
            => LET S == fs_metadata.files[n].size
                   from == fs_metadata.files[n].start_pos + at
                   bytes == Encode(t)
               IN  /\ last'.res = "ok"
                   /\ FileRead(data_file', from, Len(bytes)) = bytes
                   /\ fs_metadata'.files[n].size = Max(S, at + Len(bytes))
                   /\ open_files'[n].file_meta.size = Max(S, at + Len(bytes))
                   /\ open_files'[n].content = open_files[n].content
                   /\ SameOutside(from, Len(bytes))]_vars

\* a positional write past the end of a file that had content has just
\* extended it, the buffer of the handle still holding the old content
C21_Witness ==
    /\ last.op = "write_to_file_at"
    /\ last.res = "ok"
    /\ last.args[3] = <<"E">>
    /\ open_files[last.args[1]].content = <<"x">>
    /\ fs_metadata.files[last.args[1]].size = last.args[2] + 2
    /\ last.args[2] > 1

\* C22: readAll (read_from_file) returns the buffer of the handle; the buffer
\* is captured when the handle is opened, as the bytes of the range of the
\* file [start_pos, start_pos + size) at that time, and no positional write,
\* move, truncate or read changes it afterwards.
C22_ReadAllIsOpenTimeContent ==
    [][\A n \in Names :
         /\ (last'.op = "open" /\ last'.args[1] = n /\ last'.res = "ok")
               => Encode(open_files'[n].content)
                    = StoredBytes(fs_metadata', data_file, n)
         /\ (/\ last'.op \in {"write_to_file_at", "move_within_file", "truncate_file",
                              "read_from_file", "read_from_file_at"}
             /\ last'.args[1] = n)
               => open_files'[n].content = open_files[n].content
         /\ (last'.op = "read_from_file" /\ last'.args[1] = n)
               => last'.out = open_files[n].content]_vars

\* C23: readRange (read_from_file_at) of (start, size) on a file of size S
\* returns the bytes of the file at offsets [start, min(start + size, S))
\* when 0 <= start < S and size >= 0, the empty string when start >= S,
\* fails with "negative" when start < 0 or size < 0, and changes no state.
C23_ReadRangeExact ==
    [][\A n \in Names, r \in ReadRanges :
         (last'.op = "read_from_file_at" /\ last'.args = <<n, r[1], r[2]>>)
            => LET S == fs_metadata.files[n].size
                   start == r[1]
                   size == r[2]
               IN  /\ UNCHANGED <<fs_metadata, open_files, current_path, data_file,
                                  metadata_file>>
                   /\ (start < 0 \/ size < 0) => last'.res = "ValueError: negative"
                   /\ (start >= S /\ size >= 0) => last'.res = "ok" /\ last'.out = <<>>
                   /\ (0 <= start /\ start < S /\ size >= 0)
                         => /\ last'.res = "ok"
                            /\ Encode(last'.out)
                                 = FileRead(data_file, fs_metadata.files[n].start_pos + start,
                                            Min(start + size, S) - start)]_vars

\* a move_within_file of range r on file n has just copied len bytes: the
\* bytes that were at [start, start + len) are at [target, target + len),
\* the recorded size is max(S, target + len), and the other bytes are as
\* they were
MoveWithinCopies(n, r, len) ==
    LET S == fs_metadata.files[n].size
        sp == fs_metadata.files[n].start_pos
    IN  /\ last'.res = "ok"
        /\ FileRead(data_file', sp + r[3], len) = FileRead(data_file, sp + r[1], len)
        /\ Len(FileRead(data_file', sp + r[3], len)) = len
        /\ fs_metadata'.files[n].size = Max(S, r[3] + len)
        /\ open_files'[n].file_meta.size = Max(S, r[3] + len)
        /\ SameOutside(sp + r[3], len)

\* a move_within_file of range r has just been made on a write handle of n,
\* with arguments that are not negative
MoveWithinCalled(n, r) ==
    /\ last'.op = "move_within_file"
    /\ last'.args = <<n, r[1], r[2], r[3]>>
    /\ open_files[n].mode = "w"
    /\ r[1] >= 0 /\ r[2] >= 0 /\ r[3] >= 0

\* C24, as stated: moveWithin(start, size, target) with 0 <= start < S copies
\* the size bytes at [start, start + size) to [target, target + size) and
\* sets the size to max(S, target + size); with start >= S it changes nothing.
C24_MoveWithinAsStated ==
    [][\A n \in Names, r \in MoveRanges :
         MoveWithinCalled(n, r)
            => IF r[1] >= fs_metadata.files[n].size
               THEN UNCHANGED <<fs_metadata, open_files, data_file>>
               ELSE MoveWithinCopies(n, r, r[2])]_vars

\* C24, amended: moveWithin(start, size, target) with 0 <= start < S copies
\* the n = min(size, S - start) bytes at [start, start + n) to
\* [target, target + n), also when the ranges overlap, sets the size to
\* max(S, target + n) and leaves the other bytes unchanged; with start >= S
\* it changes nothing.
C24_MoveWithinClamped ==
    [][\A n \in Names, r \in MoveRanges :
         MoveWithinCalled(n, r)
            => IF r[1] >= fs_metadata.files[n].size
               THEN UNCHANGED <<fs_metadata, open_files, data_file>>
               ELSE MoveWithinCopies(n, r, Min(r[2], fs_metadata.files[n].size - r[1]))]_vars

\* two bytes have just been copied one position up, onto their own range,
\* and the file has grown to three bytes
C24_Witness ==
    /\ last.op = "move_within_file"
    /\ last.res = "ok"
    /\ last.args = <<"a", 0, 2, 1>>
    /\ fs_metadata.files["a"].size = 3
    /\ FileRead(data_file, fs_metadata.files["a"].start_pos, 3) = <<195, 195, 169>>

\* C25: truncate(maxSize) with maxSize >= 0 on a write handle of a file of
\* size S leaves the size at min(S, maxSize), never a larger one, and a
\* second truncate(maxSize) right after the first changes nothing: the
\* state is the one the first call left.
C25_TruncateIdempotent ==
    [][\A n \in Names, m \in TruncateSizes :
         (/\ last'.op = "truncate_file"
          /\ last'.args = <<n, m>>
          /\ m >= 0
          /\ open_files[n].mode = "w")
            => /\ last'.res = "ok"
               /\ fs_metadata'.files[n].size = Min(fs_metadata.files[n].size, m)
               /\ open_files'[n].file_meta.size = Min(fs_metadata.files[n].size, m)
               /\ (last.op = "truncate_file" /\ last.args = <<n, m>>)
                     => UNCHANGED <<fs_metadata, open_files, current_path, data_file,
                                    metadata_file, last>>]_vars

\* a two-byte file has just been truncated to one byte: its second byte is
\* still in the data file
C25_Witness ==
    /\ last.op = "truncate_file"
    /\ last.res = "ok"
    /\ last.args = <<"a", 1>>
    /\ fs_metadata.files["a"].size = 1
    /\ open_files["a"].file_meta.size = 1
    /\ Len(data_file) >= 2
    /\ data_file[2] = 169

\* C26: truncate changes only the size field of its file: the free list,
\* used_size, the capacity, the start_pos of the file, the bytes of the data
\* file, the directories, the current directory and every other FileRecord
\* are as before the call.
C26_TruncateFrame ==
    [][\A n \in Names :
         (last'.op = "truncate_file" /\ last'.args[1] = n /\ n \in DOMAIN fs_metadata.files)
            => /\ fs_metadata'.free_space = fs_metadata.free_space
               /\ fs_metadata'.used_size = fs_metadata.used_size
               /\ fs_metadata'.max_size = fs_metadata.max_size
               /\ fs_metadata'.directories = fs_metadata.directories
               /\ DOMAIN fs_metadata'.files = DOMAIN fs_metadata.files
               /\ \A o \in DOMAIN fs_metadata.files \ {n} :
                      fs_metadata'.files[o] = fs_metadata.files[o]
               /\ [fs_metadata'.files[n] EXCEPT !.size = fs_metadata.files[n].size]
                      = fs_metadata.files[n]
               /\ data_file' = data_file
               /\ current_path' = current_path]_vars

\* the file a, which held the byte its handle buffers, has just been
\* truncated to nothing while the file b holds a byte and a directory exists
C26_Witness ==
    /\ last.op = "truncate_file"
    /\ last.res = "ok"
    /\ last.args = <<"a", 0>>
    /\ fs_metadata.files["a"].size = 0
    /\ "b" \in DOMAIN fs_metadata.files
    /\ fs_metadata.files["b"].size >= 1
    /\ Len(open_files["a"].content) >= 1
    /\ Cardinality(DOMAIN fs_metadata.directories) >= 2

\* C27: append, writeAt, moveWithin and truncate on a handle opened in read
\* mode fail with the wrong-mode error and change nothing: the buffer, the
\* sizes, the bytes of the data file and the metadata, in memory and saved,
\* are as before.
C27_ReadHandleRejectsWrites ==
    [][\A n \in Names :
         (last'.op \in WriteOps /\ last'.args[1] = n /\ open_files[n].mode = "r")
            => /\ last'.res = "IOError: not write mode"
               /\ UNCHANGED <<fs_metadata, open_files, current_path, data_file,
                              metadata_file>>]_vars

\* a move inside a file that holds bytes has just been refused on a read
\* handle
C27_Witness ==
    /\ last.op = "move_within_file"
    /\ last.res = "IOError: not write mode"
    /\ open_files["a"].mode = "r"
    /\ fs_metadata.files["a"].size >= 1
    /\ Len(open_files["a"].content) >= 1

\* C28: for every reachable metadata state, what _initialize loads from the
\* document _save_metadata writes is that state again: the same capacity,
\* used_size, files and directories, and the free list as the same
\* sequence of (start, length) pairs.
C28_SaveLoadRoundTrip ==
    LET loaded == LoadMetadata(_save_metadata(Here).disk)
    IN  /\ loaded = fs_metadata
        /\ Len(loaded.free_space) = Len(fs_metadata.free_space)
        /\ \A i \in DOMAIN fs_metadata.free_space :
               /\ loaded.free_space[i][1] = fs_metadata.free_space[i][1]
               /\ loaded.free_space[i][2] = fs_metadata.free_space[i][2]

\* a new FileSystem object has just loaded a saved state with a file, two
\* directories and a free list of two blocks
C28_Witness ==
    /\ last.op = "_initialize"
    /\ Len(fs_metadata.free_space) >= 2
    /\ DOMAIN fs_metadata.files # {}
    /\ Cardinality(DOMAIN fs_metadata.directories) >= 2

\* the operations that change the metadata
MutatingOps ==
    {"create", "delete", "mkdir", "move", "open", "close", "write_to_file",
     "write_to_file_at", "move_within_file", "truncate_file"}

\* C29: in a sequential run, after every create, delete, mkdir, move, open
\* of a new file in write mode, append, writeAt, moveWithin, truncate that
\* reduces the size, and close that returns without an error, the metadata
\* file holds the document of the metadata in memory.
C29_SnapshotFollowsMemory ==
    [][(/\ last'.op \in MutatingOps
        /\ last'.res = "ok"
        /\ last'.op = "truncate_file"
              => fs_metadata'.files[last'.args[1]].size
                    < fs_metadata.files[last'.args[1]].size
        /\ last'.op = "open"
              => last'.args[2] = "w" /\ last'.args[1] \notin DOMAIN fs_metadata.files)
          => metadata_file' = json_dump(metadata_copy(fs_metadata'))]_vars

\* the byte ranges [s1, s1 + n1) and [s2, s2 + n2) share a byte
Overlap(s1, n1, s2, n2) == s1 < s2 + n2 /\ s2 < s1 + n1

\* C30: when two threads create two distinct names concurrently, every
\* create returns or fails with the out-of-space error; the FileRecord of a
\* create that returned is registered in files and listed in the current
\* directory; and once both are done no byte is allocated to both files or
\* both free and allocated.
C30_ConcurrentCreate ==
    /\ [][\A t \in Threads :
            (pc[t] # "done" /\ pc'[t] = "done")
               => /\ last'.res \in {"ok", "IOError: no free space"}
                  /\ last'.res = "ok"
                        => /\ HasFile(fs_metadata', RaceName(t))
                           /\ \E i \in DOMAIN fs_metadata'.directories[current_path].files :
                                 fs_metadata'.directories[current_path].files[i] = RaceName(t)]_vars
    /\ []((\A t \in Threads : pc[t] = "done")
            => LET files == fs_metadata.files
                   fl == fs_metadata.free_space
               IN  /\ \A m, n \in DOMAIN files :
                         m # n => ~Overlap(files[m].start_pos, files[m].size,
                                           files[n].start_pos, files[n].size)
                   /\ \A n \in DOMAIN files, i \in DOMAIN fl :
                         ~Overlap(files[n].start_pos, files[n].size, fl[i][1], fl[i][2]))

\* C39: an append of text that returns on a write handle leaves the recorded
\* size of the file larger by exactly the byte length of text, whatever was
\* done through the handle before.
C39_AppendGrowsSize ==
    [][\A n \in Names, t \in Texts :
         (/\ last'.op = "write_to_file"
          /\ last'.args = <<n, t>>
          /\ last'.res = "ok")
            => fs_metadata'.files[n].size = fs_metadata.files[n].size + Len(Encode(t))]_vars

\* C38: in a volume with one file, every append that returns, through the
\* handle open_files holds or through an earlier handle of the file, leaves
\* the content a newly opened handle reads equal to the content before the
\* append followed by the appended text: no text appended earlier is lost.
C38_AppendsSurviveReopen ==
    [][\A t \in Texts :
         (/\ last'.op = "write_to_file"
          /\ last'.args = <<"a", t>>
          /\ last'.res = "ok")
            => StoredBytes(fs_metadata', data_file', "a")
                  = StoredBytes(fs_metadata, data_file, "a") \o Encode(t)]_vars

\* the free list fl is sorted by start, no two of its blocks share a byte,
\* and no block ends where another starts
Coalesced(fl) ==
    /\ \A i \in 1..(Len(fl) - 1) : fl[i][1] <= fl[i + 1][1]
    /\ \A i, j \in DOMAIN fl : i # j => ~Overlap(fl[i][1], fl[i][2], fl[j][1], fl[j][2])
    /\ \A i, j \in DOMAIN fl : i # j => fl[i][1] + fl[i][2] # fl[j][1]

\* C34: for the allocator alone, starting from the one block (0, capacity),
\* after every sequence of allocations and of releases of ranges that were
\* handed out and not yet released, the free list is sorted by start, its
\* blocks do not overlap and no two blocks are adjacent; a release with
\* size <= 0 changes nothing.
C34_FreeListCoalesced ==
    /\ [](Coalesced(fs_metadata.free_space))
    /\ [][(last'.op = "_release_space" /\ last'.args[2] <= 0)
             => fs_metadata' = fs_metadata]_vars

\* a range between two ranges still allocated has just been released: the
\* free list has a block that nothing was merged into
C34_Witness ==
    /\ last.op = "_release_space"
    /\ last.args[2] > 0
    /\ Len(fs_metadata.free_space) >= 2
    /\ Cardinality(local[Caller].ranges) >= 2

\* the index best-fit chooses in fl for size: a block that holds size bytes,
\* the shortest such block, the one with the lowest start among equals
FitIndex(fl, size) ==
    CHOOSE i \in DOMAIN fl :
        /\ fl[i][2] >= size
        /\ \A j \in DOMAIN fl :
              fl[j][2] >= size
                 => \/ fl[i][2] < fl[j][2]
                    \/ fl[i][2] = fl[j][2] /\ fl[i][1] <= fl[j][1]

\* C35: _allocate_space(size) with size >= 0 chooses, among the blocks of
\* length >= size, the shortest and among equals the one with the lowest
\* start; it returns the start of that block, takes size bytes from its
\* start (the block is dropped when nothing is left), adds size to
\* used_size and leaves the other blocks as they are; when no block has
\* length >= size it fails with the out-of-space error and changes nothing.
C35_BestFit ==
    [][last'.op = "_allocate_space"
         => LET fl == fs_metadata.free_space
                size == last'.args[1]
            IN  IF \A i \in DOMAIN fl : fl[i][2] < size
                THEN /\ last'.res = "IOError: no free space"
                     /\ fs_metadata' = fs_metadata
                ELSE LET k == FitIndex(fl, size) IN
                     /\ last'.res = "ok"
                     /\ last'.out = <<fl[k][1]>>
                     /\ fs_metadata'.used_size = fs_metadata.used_size + size
                     /\ fs_metadata'.free_space =
                           IF fl[k][2] = size
                           THEN SubSeq(fl, 1, k - 1) \o SubSeq(fl, k + 1, Len(fl))
                           ELSE [fl EXCEPT ![k] = <<fl[k][1] + size, fl[k][2] - size>>]
                     /\ [fs_metadata' EXCEPT !.free_space = fl,
                                             !.used_size = fs_metadata.used_size]
                           = fs_metadata]_vars

\* one byte has just been allocated from a free list with a longer block
\* before a one-byte block: the one-byte block was taken whole
C35_Witness ==
    /\ last.op = "_allocate_space"
    /\ last.res = "ok"
    /\ last.args = <<1>>
    /\ last.out[1] > 0
    /\ Len(fs_metadata.free_space) >= 1
    /\ fs_metadata.free_space[1][1] = 0
    /\ fs_metadata.free_space[1][2] >= 2

\* both threads called write_to_file and both calls are over
BothAppended ==
    \A t \in Threads : pc[t] = "done" /\ local[t].op = "write_to_file"

\* C37: when two threads each call write_to_file once on the same
\* FileObject, with texts t1 and t2 and a buffer that was c, then after both
\* calls are over the buffer is c + t1 + t2 or c + t2 + t1, the data file
\* holds the encoding of that buffer at start_pos, and the size recorded for
\* the file and in the FileObject is its number of bytes.
C37_AppendsSerialized ==
    BothAppended =>
        LET c == <<"x">>
            t1 == local[1].text
            t2 == local[2].text
            self == open_files["a"]
            bytes == Encode(self.content)
        IN  /\ self.content \in {c \o t1 \o t2, c \o t2 \o t1}
            /\ \A i \in 1..Len(bytes) :
                  /\ self.file_meta.start_pos + i <= Len(data_file)
                  /\ data_file[self.file_meta.start_pos + i] = bytes[i]
            /\ fs_metadata.files["a"].size = Len(bytes)
            /\ self.file_meta.size = Len(bytes)
            /\ last.res = "ok"

\* both calls are over and the text of thread 2 was appended first
C37_Witness ==
    /\ BothAppended
    /\ local[1].text = <<"x">>
    /\ local[2].text = <<"E">>
    /\ open_files["a"].content = <<"x", "E", "x">>
    /\ fs_metadata.files["a"].size = 4

\* thread t is inside the statements of an append or of a write at a
\* position that update the buffer, the data file and the size of the
\* FileObject: a first update is done or due and the last is not done yet
AppendUpdating(t) == pc[t] \in {"write_store", "write_data", "write_size"}

WriteAtUpdating(t) ==
    \/ pc[t] = "write_at_size"
    \/ pc[t] = "write_at_data"

\* C33: the lock of a FileObject serializes the operations on it: no two
\* threads are at the same time inside the buffer, data file and size
\* updates of an append or of a write at a position through the same
\* FileObject.
C33_HandleSerialized ==
    \A t1 \in Threads : \A t2 \in Threads \ {t1} :
        ~ /\ AppendUpdating(t1) \/ WriteAtUpdating(t1)
          /\ AppendUpdating(t2) \/ WriteAtUpdating(t2)
          /\ local[t1].file_name = local[t2].file_name

\* the statement thread t executes next changes the structure that
\* fs_metadata describes: the records of the files, the lists of the
\* directories, the free list, used_size, or the size in a record
StructuralStep(t) ==
    pc[t] \in {"allocate_write", "allocate_store", "create_link",
               "create_register", "write_size", "write_meta",
               "write_at_size", "open_body"}

\* C32: FileSystem.lock guards every structural mutation: a thread that
\* executes a statement of create, of _allocate_space, or the update of the
\* recorded size of a write, holds FileSystem.lock.
C32_MutationsLocked ==
    \A t \in Threads : StructuralStep(t) => lock.file_system = t

\* C31: no call waits for ever: under fair scheduling every call a thread
\* has entered returns or raises, whatever locks it has to wait for, and in
\* the end every thread is over, so that ThreadedFileSystem.run joins them
\* all.
C31_EveryCallEnds ==
    /\ \A t \in Threads : (pc[t] # "done") ~> (pc[t] = "done")
    /\ <>[](\A t \in Threads : pc[t] = "done" /\ lock = Unlocked)

\* thread 1 holds the lock of the FileObject and waits for FileSystem.lock,
\* which thread 2 holds to make a new file
C31_Witness ==
    /\ pc[1] = "write_fs_acquire"
    /\ lock.file_object["a"] = 1
    /\ lock.file_system = 2
    /\ pc[2] = "open_body"

\* C36: while one thread deletes a file and another opens one, no name is
\* ever in open_files without being a key of files.
C36_OpenFilesHaveRecords ==
    \A n \in DOMAIN open_files : HasFile(fs_metadata, n)
====
